---- MODULE Spec2Model ----
(***************************************************************************)
(* MiniVault: the generation-and-logging pipeline.                         *)
(*                                                                         *)
(*   OllamaService      src/services/llm_service.py                        *)
(*   InteractionLogger  src/services/logging_service.py                    *)
(*   /generate handler  src/app.py                                         *)
(*                                                                         *)
(* Two specifications share the variables and the logger's actions:        *)
(*   Spec     one /generate request (complete or streaming mode) driven    *)
(*            through the backend client, the relay loop and the logger;   *)
(*   LogSpec  several threads calling InteractionLogger.log_interaction    *)
(*            concurrently on the same logger.                             *)
(*                                                                         *)
(* Python values: a str that the code only passes on or formats (prompt,   *)
(* model name, error reason) is a TLA+ string; a str that the code         *)
(* concatenates and strips (response text, token) is the sequence of its   *)
(* pieces, each piece being either whitespace or a run that begins and     *)
(* ends with a non-whitespace character; a dict is a record whose domain   *)
(* is the set of keys present.  Timestamps are not modelled; an elapsed    *)
(* time is a nondeterministic number of milliseconds >= 0.                 *)
(***************************************************************************)
EXTENDS Integers, Sequences, FiniteSets, TLC

VARIABLES
    pc,        \* position of every request / thread
    req,       \* the accepted GenerateRequest of a request
    svc,       \* locals of OllamaService.generate_response[_stream]
    calls,     \* HTTP calls the client has issued to the backend, in order
    lines,     \* lines received from the backend's streaming body, in order
    result,    \* <<dict>> returned by generate_response, <<>> before
    chunks,    \* chunks yielded so far by generate_response_stream
    orch,      \* locals of generate_stream (the relay loop in app.py)
    events,    \* events the caller has received from the streaming response
    http,      \* <<response>> the caller received in complete mode
    lock,      \* InteractionLogger.lock: <<>> when free, <<holder>> when held
    file,      \* the log file: the portions written so far, in file order
    entry,     \* the log_entry a thread is writing
    logstat,   \* per thread: calls of log_interaction, failures, and the
               \* entries appended with the arguments they were built from
    exists,    \* os.path.exists(log_file)
    args,      \* per thread: the arguments of its call of log_interaction
    rd,        \* what the last get_recent_logs / get_log_stats read and returned
    exc        \* per request: <<str(e)>> once an except clause of the handler
               \* in app.py has caught e, <<>> before

vars == <<pc, req, svc, calls, lines, result, chunks, orch, events, http,
          lock, file, entry, logstat, exists, args, rd, exc>>

pipeVars == <<req, svc, calls, lines, result, chunks, orch, events, http>>
logVars == <<lock, file, entry, logstat, exists, args>>
readVars == <<rd>>
handlerVars == <<exc>>

-----------------------------------------------------------------------------
(* Bounds of the model *)

MaxLines == 2          \* lines read from one streaming body
MaxElapsed == 1        \* largest elapsed time of one measurement, in ms
MaxAppends == 2        \* log_interaction calls per thread in LogSpec
MaxLogged == 3         \* log_interaction calls of the thread in ReadSpec
MaxLimit == 3          \* largest limit passed to get_recent_logs

HTTP_OK == 200
HTTP_500_INTERNAL_SERVER_ERROR == 500

Reqs == {"r1"}
Writers == {"w1", "w2"}
Procs == Reqs \cup Writers

Elapsed == 0..MaxElapsed

-----------------------------------------------------------------------------
(* Python helpers *)

PyNone == "<None>"

\* isinstance(x, str), and str(x) as an f-string formats it
IsStr(x) == x # PyNone
PyStr(x) == IF x = PyNone THEN "None" ELSE x

\* truth value of an Optional[str]
Truthy(s) == s # PyNone /\ s # ""

\* d.get(k, default)
Get(d, k, default) == IF k \in DOMAIN d THEN d[k] ELSE default

IsSpace(p) == p \in {" ", "\n"}

RECURSIVE LStrip(_)
LStrip(t) == IF t # <<>> /\ IsSpace(Head(t)) THEN LStrip(Tail(t)) ELSE t

RECURSIVE RStrip(_)
RStrip(t) ==
    IF t # <<>> /\ IsSpace(t[Len(t)]) THEN RStrip(SubSeq(t, 1, Len(t) - 1)) ELSE t

\* str.strip()
Strip(t) == RStrip(LStrip(t))

\* the characters of the prompts of the model
Chars(s) ==
    CASE s = "Hello" -> <<"H", "e", "l", "l", "o">>
      [] s = "xyz" -> <<"x", "y", "z">>
      [] s = "Why how" -> <<"W", "h", "y", " ", "h", "o", "w">>
      [] s = "WHAT" -> <<"W", "H", "A", "T">>
      [] s = "explain why" ->
           <<"e", "x", "p", "l", "a", "i", "n", " ", "w", "h", "y">>
      [] s = "Show" -> <<"S", "h", "o", "w">>
      [] s = "what hello" ->
           <<"w", "h", "a", "t", " ", "h", "e", "l", "l", "o">>
      [] s = "Explain" -> <<"E", "x", "p", "l", "a", "i", "n">>
      [] s = "hello" -> <<"h", "e", "l", "l", "o">>
      [] s = "what" -> <<"w", "h", "a", "t">>
      [] s = "how" -> <<"h", "o", "w">>
      [] s = "why" -> <<"w", "h", "y">>
      [] s = "explain" -> <<"e", "x", "p", "l", "a", "i", "n">>

LowerChar(c) ==
    CASE c = "H" -> "h"
      [] c = "W" -> "w"
      [] c = "E" -> "e"
      [] c = "A" -> "a"
      [] c = "T" -> "t"
      [] c = "S" -> "s"
      [] OTHER -> c

\* str.lower(), on characters
Lower(cs) == [i \in 1..Len(cs) |-> LowerChar(cs[i])]

\* `needle in hay`, on characters
Contains(hay, needle) ==
    \E i \in 0..(Len(hay) - Len(needle)) :
        \A j \in 1..Len(needle) : hay[i + j] = needle[j]

-----------------------------------------------------------------------------
(* The backend as the client sees it: the outcome of one HTTP call *)

DefaultModel == "llama2"

Prompts == {"Hello", "xyz"}
RequestModels == {PyNone, "", "llama2", "mistral"}

\* str(e) of an exception caught by `except Exception as e`
ExcDescs == {"Connection refused", ""}
JsonError == "Expecting value: line 1 column 1 (char 0)"
\* str(e) of the ValidationError of GenerateResponse(model=None)
ValidationError == "1 validation error for GenerateResponse"
ErrorCodes == {500}

\* bodies of GET /api/tags: decoded JSON in json, <<>> when it does not decode
ModelLists ==
    { <<>>,
      <<[name |-> "phi"], [name |-> "llama2"]>>,
      <<[name |-> PyNone]>>,
      <<[size |-> "7b"]>> }
TagsBodies == {[json |-> <<[models |-> L]>>] : L \in ModelLists}
                \cup {[json |-> <<[version |-> "1"]>>], [json |-> <<>>]}

ProbeOutcomes ==
    {[kind |-> "response", code |-> c] : c \in {HTTP_OK} \cup ErrorCodes}
      \cup {[kind |-> "exception", desc |-> d] : d \in ExcDescs}

TagsOutcomes ==
    {[kind |-> "response", code |-> HTTP_OK, body |-> b] : b \in TagsBodies}
      \cup {[kind |-> "response", code |-> c, body |-> [json |-> <<>>]] : c \in ErrorCodes}
      \cup {[kind |-> "exception", desc |-> d] : d \in ExcDescs}

\* bodies of a non-streaming POST /api/generate
Texts == {<<"Paris", "\n">>, <<"ok">>}
GenBodies == {[json |-> <<[response |-> t]>>] : t \in Texts}
               \cup {[json |-> <<[done |-> TRUE]>>], [json |-> <<>>]}

GenOutcomes ==
    {[kind |-> "response", code |-> HTTP_OK, body |-> b] : b \in GenBodies}
      \cup {[kind |-> "response", code |-> c, body |-> [json |-> <<>>]] : c \in ErrorCodes}
      \cup {[kind |-> "timeout"]}
      \cup {[kind |-> "exception", desc |-> d] : d \in ExcDescs}

-----------------------------------------------------------------------------
(* OllamaService: pure parts *)

FallbackSuffix == " (fallback)"

GenericFallback ==
    <<"I apologize, but the LLM service is currently unavailable. This is a fallback response to your prompt.">>

FallbackKeywords == <<"hello", "what", "how", "why", "explain">>

FallbackSentence(k) ==
    CASE k = "hello" ->
           <<"Hello! I'm a fallback response since the LLM service is currently unavailable.">>
      [] k = "what" ->
           <<"I'm sorry, I cannot provide a detailed answer right now as the LLM service is unavailable. This is a fallback response.">>
      [] k = "how" ->
           <<"I'd love to help explain that, but the LLM service is currently unavailable. This is a fallback response.">>
      [] k = "why" ->
           <<"That's an interesting question! Unfortunately, the LLM service is unavailable right now, so this is a fallback response.">>
      [] k = "explain" ->
           <<"I'd be happy to explain that topic, but the LLM service is currently unavailable. This is a fallback response.">>

StreamFallbackSentence(k) ==
    CASE k = "hello" ->
           <<"Hello! I'm a fallback response since the LLM service is currently unavailable.">>
      [] k = "what" ->
           <<"I'm sorry, I cannot provide a detailed answer right now as the LLM service is unavailable. This is a fallback response.">>
      [] k = "how" ->
           <<"I'd love to help explain that, but the LLM service is currently unavailable. This is a fallback response.">>
      [] k = "why" ->
           <<"That's an interesting question! Unfortunately, the LLM service is unavailable right now, so this is a fallback response.">>
      [] k = "explain" ->
           <<"I'd be happy to explain that topic, but the LLM service is currently unavailable. This is a fallback response.">>

\* mutant: the loop has no `break`, the last keyword found wins
RECURSIVE FallbackScanNoBreak(_, _)
FallbackScanNoBreak(prompt_lower, i) ==
    IF i > Len(FallbackKeywords) THEN GenericFallback
    ELSE LET later == FallbackScanNoBreak(prompt_lower, i + 1)
         IN IF later # GenericFallback THEN later
            ELSE IF Contains(prompt_lower, Chars(FallbackKeywords[i]))
                 THEN FallbackSentence(FallbackKeywords[i])
                 ELSE GenericFallback

\* the loop `for keyword, response in fallback_responses.items()` from keyword i on
RECURSIVE FallbackScan(_, _)
FallbackScan(prompt_lower, i) ==
    IF i > Len(FallbackKeywords) THEN GenericFallback
    ELSE IF Contains(prompt_lower, Chars(FallbackKeywords[i]))
         THEN FallbackSentence(FallbackKeywords[i])
         ELSE FallbackScan(prompt_lower, i + 1)

RECURSIVE StreamFallbackScan(_, _)
StreamFallbackScan(prompt_lower, i) ==
    IF i > Len(FallbackKeywords) THEN GenericFallback
    ELSE IF Contains(prompt_lower, Chars(FallbackKeywords[i]))
         THEN StreamFallbackSentence(FallbackKeywords[i])
         ELSE StreamFallbackScan(prompt_lower, i + 1)

FallbackText(prompt) == FallbackScan(Lower(Chars(prompt)), 1)
StreamFallbackText(prompt) == StreamFallbackScan(Lower(Chars(prompt)), 1)

\* mutant: the fallback result names the model without the suffix
GetFallbackResponseNoSuffix(prompt, model, error_reason) ==
    [response |-> FallbackText(prompt),
     model |-> model,
     duration_ms |-> 0,
     success |-> FALSE,
     error_reason |-> error_reason]

\* _get_fallback_response
GetFallbackResponse(prompt, model, error_reason) ==
    [response |-> FallbackText(prompt),
     model |-> PyStr(model) \o FallbackSuffix,
     duration_ms |-> 0,
     success |-> FALSE,
     error_reason |-> error_reason]

\* _get_fallback_stream_response
GetFallbackStreamResponse(prompt, model, error_reason) ==
    [token |-> StreamFallbackText(prompt),
     model |-> PyStr(model) \o FallbackSuffix,
     done |-> TRUE,
     success |-> FALSE,
     error_reason |-> error_reason,
     duration_ms |-> 0,
     full_response |-> StreamFallbackText(prompt)]

\* mutant: any answer of the backend counts, whatever its status
IsAvailableAnyStatus(o) == o.kind = "response"

\* is_available
IsAvailable(o) == o.kind = "response" /\ o.code = HTTP_OK

\* get_available_models: [] on a non-200 status, on a body that does not
\* decode, on an entry without "name" (KeyError) and on any other exception
GetAvailableModels(o) ==
    IF o.kind = "response" /\ o.code = HTTP_OK /\ o.body.json # <<>>
    THEN LET models == Get(o.body.json[1], "models", <<>>)
         IN IF \A i \in 1..Len(models) : "name" \in DOMAIN models[i]
            THEN [i \in 1..Len(models) |-> models[i].name]
            ELSE <<>>
    ELSE <<>>

InList(x, list) == \E i \in 1..Len(list) : list[i] = x

\* `model_name = model or self.default_model`
ResolveModel(model) == IF Truthy(model) THEN model ELSE DefaultModel

\* mutant: substitutes the last listed model instead of the first
PickModelLast(model_name, available_models) ==
    IF available_models # <<>> /\ ~InList(model_name, available_models)
    THEN [fallback |-> FALSE,
          model_name |-> available_models[Len(available_models)]]
    ELSE [fallback |-> FALSE, model_name |-> model_name]

\* the model check of generate_response / generate_response_stream:
\* the model to use, or fallback = TRUE for "No models available"
PickModel(model_name, available_models) ==
    IF available_models # <<>> /\ ~InList(model_name, available_models)
    THEN IF available_models # <<>>
         THEN [fallback |-> FALSE, model_name |-> available_models[1]]
         ELSE [fallback |-> TRUE, model_name |-> model_name]
    ELSE [fallback |-> FALSE, model_name |-> model_name]

\* the try block of generate_response, given the outcome of the POST and
\* the elapsed time
GenerateResult(prompt, model_name, o, elapsed) ==
    CASE o.kind = "timeout" ->
           GetFallbackResponse(prompt, model_name, "Request timeout")
      [] o.kind = "exception" ->
           GetFallbackResponse(prompt, model_name, o.desc)
      [] o.kind = "response" ->
           IF o.code = HTTP_OK
           THEN IF o.body.json = <<>>
                THEN GetFallbackResponse(prompt, model_name, JsonError)
                ELSE [response |-> Strip(Get(o.body.json[1], "response", <<>>)),
                      model |-> model_name,
                      duration_ms |-> elapsed,
                      success |-> TRUE]
           ELSE GetFallbackResponse(prompt, model_name,
                                    "API error: " \o ToString(o.code))

\* what response.iter_lines() delivers next from a streaming body: a line
\* (empty keep-alive, text that is not JSON, a JSON object, bytes that
\* line.decode('utf-8') rejects), or an exception raised while reading it
\* (connection error)
DecodeError == "'utf-8' codec can't decode byte 0xc3 in position 13"
Tokens == {<<"Hi">>, <<" ">>}
LineObjects ==
    {[response |-> t, done |-> b] : t \in Tokens \cup {<<>>}, b \in BOOLEAN}
      \cup {[error |-> "model runner has stopped"]}
StreamLines ==
    {[kind |-> "empty"], [kind |-> "malformed"], [kind |-> "undecodable"]}
      \cup {[kind |-> "json", obj |-> o] : o \in LineObjects}
      \cup {[kind |-> "raises", desc |-> d] : d \in ExcDescs}

StreamPostOutcomes ==
    {[kind |-> "response", code |-> c] : c \in {HTTP_OK} \cup ErrorCodes}
      \cup {[kind |-> "timeout"]}
      \cup {[kind |-> "exception", desc |-> d] : d \in ExcDescs}

\* the chunk yielded for a token
TokenChunk(token, model_name, done) ==
    [token |-> token, model |-> model_name, done |-> done, success |-> TRUE]

\* the terminal chunk yielded on done
TerminalChunk(model_name, full_response, elapsed) ==
    [token |-> <<>>,
     model |-> model_name,
     done |-> TRUE,
     success |-> TRUE,
     duration_ms |-> elapsed,
     full_response |-> Strip(full_response)]

-----------------------------------------------------------------------------
(* InteractionLogger: pure parts *)

\* mutant: the entry is response_data itself with the prompt added
LogEntryOfAll(prompt, response_data) ==
    [k \in DOMAIN response_data \cup {"prompt"} |->
        IF k = "prompt" THEN prompt ELSE response_data[k]]

\* the log_entry dict log_interaction builds from response_data
LogEntryOf(prompt, response_data) ==
    LET base == [prompt |-> prompt,
                 response |-> Get(response_data, "response", <<>>),
                 model |-> Get(response_data, "model", "unknown"),
                 duration_ms |-> Get(response_data, "duration_ms", 0),
                 success |-> Get(response_data, "success", TRUE)]
    IN IF "error_reason" \in DOMAIN response_data
       THEN [k \in DOMAIN base \cup {"error_reason"} |->
                IF k = "error_reason" THEN response_data.error_reason ELSE base[k]]
       ELSE base

\* json.dumps(log_entry) + "\n", as the two portions that reach the file:
\* the head of the line, and its tail ending in the newline
Serialize(log_entry) ==
    <<[part |-> "head", of |-> log_entry], [part |-> "tail", of |-> log_entry]>>

\* f.readlines(): the file cut after every newline; a last line without
\* its newline is returned as it is
RECURSIVE SplitLines(_, _)
SplitLines(f, cur) ==
    IF f = <<>> THEN (IF cur = <<>> THEN <<>> ELSE <<cur>>)
    ELSE IF Head(f).part = "tail"
         THEN <<Append(cur, Head(f))>> \o SplitLines(Tail(f), <<>>)
         ELSE SplitLines(Tail(f), Append(cur, Head(f)))

ReadLines(f) == SplitLines(f, <<>>)

\* where log_interaction returns to
ReturnTo(p) ==
    IF p \in Writers THEN "idle"
    ELSE IF req[p].stream THEN "o_sentinel"
    ELSE IF exc[p] # <<>> THEN "o_raise" ELSE "o_return"

NoEntry == [prompt |-> ""]
NoArgs == [prompt |-> ""]
NoRead == [op |-> "none"]
NoRequest == [prompt |-> "", model |-> PyNone, stream |-> FALSE]

-----------------------------------------------------------------------------
(* Initial state: no request accepted, the log file empty, the lock free *)

Init ==
    /\ pc = [p \in Procs |-> "idle"]
    /\ req = [r \in Reqs |-> NoRequest]
    /\ svc = [r \in Reqs |-> [model_name |-> "", available_models |-> <<>>,
                              full_response |-> <<>>]]
    /\ calls = [r \in Reqs |-> <<>>]
    /\ lines = [r \in Reqs |-> <<>>]
    /\ result = [r \in Reqs |-> <<>>]
    /\ chunks = [r \in Reqs |-> <<>>]
    /\ orch = [r \in Reqs |-> [full_response |-> <<>>, model_name |-> ""]]
    /\ events = [r \in Reqs |-> <<>>]
    /\ http = [r \in Reqs |-> <<>>]
    /\ lock = <<>>
    /\ file = <<>>
    /\ entry = [p \in Procs |-> NoEntry]
    /\ logstat = [p \in Procs |-> [calls |-> 0, appended |-> <<>>, failed |-> 0,
                                    inputs |-> <<>>]]
    /\ exists = FALSE
    /\ args = [p \in Procs |-> NoArgs]
    /\ rd = NoRead
    /\ exc = [r \in Reqs |-> <<>>]

-----------------------------------------------------------------------------
(* HTTP calls to the backend, as recorded in calls *)

\* the call failed: no response, a status other than 200, or a body that
\* is not the JSON the client reads
CallFailed(o) ==
    \/ o.kind # "response"
    \/ o.code # HTTP_OK
    \/ "body" \in DOMAIN o /\ o.body.json = <<>>
    \/ /\ "body" \in DOMAIN o /\ o.body.json # <<>>
       /\ "models" \in DOMAIN o.body.json[1]
       /\ \E i \in 1..Len(o.body.json[1].models) :
              "name" \notin DOMAIN o.body.json[1].models[i]

ProbeCall(o) ==
    [op |-> "GET /api/tags", by |-> "is_available", failed |-> CallFailed(o)]
ListCall(o) ==
    [op |-> "GET /api/tags", by |-> "get_available_models",
     failed |-> CallFailed(o)]
GenerateCall(model_name, stream, o) ==
    [op |-> "POST /api/generate", model |-> model_name, stream |-> stream,
     failed |-> CallFailed(o)]

IsProbeCall(c) == c.op = "GET /api/tags" /\ c.by = "is_available"
IsListCall(c) == c.op = "GET /api/tags" /\ c.by = "get_available_models"
IsGenerateCall(c) == c.op = "POST /api/generate"

-----------------------------------------------------------------------------
(* POST /generate: the request is accepted (validated by the framework) *)

Accept(r) ==
    /\ pc[r] = "idle"
    /\ \E prompt \in Prompts, model \in RequestModels, stream \in BOOLEAN :
          req' = [req EXCEPT ![r] = [prompt |-> prompt, model |-> model,
                                      stream |-> stream]]
    /\ pc' = [pc EXCEPT ![r] = IF req'[r].stream THEN "s_probe" ELSE "g_probe"]
    /\ UNCHANGED <<svc, calls, lines, result, chunks, orch, events, http>>
    /\ UNCHANGED logVars
    /\ UNCHANGED readVars
    /\ UNCHANGED handlerVars

-----------------------------------------------------------------------------
(* OllamaService.generate_response, one action per HTTP call *)

\* model resolution and the availability probe
GenerateProbe(r) ==
    /\ pc[r] = "g_probe"
    /\ \E o \in ProbeOutcomes :
         LET model_name == ResolveModel(req[r].model) IN
         /\ calls' = [calls EXCEPT ![r] = Append(@, ProbeCall(o))]
         /\ svc' = [svc EXCEPT ![r].model_name = model_name]
         /\ IF ~IsAvailable(o)
            THEN /\ result' = [result EXCEPT ![r] =
                       <<GetFallbackResponse(req[r].prompt, model_name,
                                             "Ollama service unavailable")>>]
                 /\ pc' = [pc EXCEPT ![r] = "o_log"]
            ELSE /\ result' = result
                 /\ pc' = [pc EXCEPT ![r] = "g_models"]
    /\ UNCHANGED <<req, lines, chunks, orch, events, http>>
    /\ UNCHANGED logVars
    /\ UNCHANGED readVars
    /\ UNCHANGED handlerVars

\* the model list and the choice of the model
GenerateModels(r) ==
    /\ pc[r] = "g_models"
    /\ \E o \in TagsOutcomes :
         LET available_models == GetAvailableModels(o)
             pick == PickModel(svc[r].model_name, available_models) IN
         /\ calls' = [calls EXCEPT ![r] = Append(@, ListCall(o))]
         /\ svc' = [svc EXCEPT ![r].available_models = available_models,
                               ![r].model_name = pick.model_name]
         /\ IF pick.fallback
            THEN /\ result' = [result EXCEPT ![r] =
                       <<GetFallbackResponse(req[r].prompt, pick.model_name,
                                             "No models available")>>]
                 /\ pc' = [pc EXCEPT ![r] = "o_log"]
            ELSE /\ result' = result
                 /\ pc' = [pc EXCEPT ![r] = "g_post"]
    /\ UNCHANGED <<req, lines, chunks, orch, events, http>>
    /\ UNCHANGED logVars
    /\ UNCHANGED readVars
    /\ UNCHANGED handlerVars

\* the generation call and the result built from its outcome
GeneratePost(r) ==
    /\ pc[r] = "g_post"
    /\ \E o \in GenOutcomes, elapsed \in Elapsed :
         /\ calls' = [calls EXCEPT ![r] =
                         Append(@, GenerateCall(svc[r].model_name, FALSE, o))]
         /\ result' = [result EXCEPT ![r] =
                          <<GenerateResult(req[r].prompt, svc[r].model_name,
                                           o, elapsed)>>]
    /\ pc' = [pc EXCEPT ![r] = "o_log"]
    /\ UNCHANGED <<req, svc, lines, chunks, orch, events, http>>
    /\ UNCHANGED logVars
    /\ UNCHANGED readVars
    /\ UNCHANGED handlerVars

-----------------------------------------------------------------------------
(* OllamaService.generate_response_stream.  The generator runs when the    *)
(* relay loop asks for the next chunk, up to its next yield or its end.    *)

Yield(r, chunk) == chunks' = [chunks EXCEPT ![r] = Append(@, chunk)]

StreamProbe(r) ==
    /\ pc[r] = "s_probe"
    /\ \E o \in ProbeOutcomes :
         LET model_name == ResolveModel(req[r].model) IN
         /\ calls' = [calls EXCEPT ![r] = Append(@, ProbeCall(o))]
         /\ svc' = [svc EXCEPT ![r].model_name = model_name]
         /\ IF ~IsAvailable(o)
            THEN /\ Yield(r, GetFallbackStreamResponse(req[r].prompt, model_name,
                                                   "Ollama service unavailable"))
                 /\ pc' = [pc EXCEPT ![r] = "o_chunk"]
            ELSE /\ chunks' = chunks
                 /\ pc' = [pc EXCEPT ![r] = "s_models"]
    /\ UNCHANGED <<req, lines, result, orch, events, http>>
    /\ UNCHANGED logVars
    /\ UNCHANGED readVars
    /\ UNCHANGED handlerVars

StreamModels(r) ==
    /\ pc[r] = "s_models"
    /\ \E o \in TagsOutcomes :
         LET available_models == GetAvailableModels(o)
             pick == PickModel(svc[r].model_name, available_models) IN
         /\ calls' = [calls EXCEPT ![r] = Append(@, ListCall(o))]
         /\ svc' = [svc EXCEPT ![r].available_models = available_models,
                               ![r].model_name = pick.model_name]
         /\ IF pick.fallback
            THEN /\ Yield(r, GetFallbackStreamResponse(req[r].prompt,
                                 pick.model_name, "No models available"))
                 /\ pc' = [pc EXCEPT ![r] = "o_chunk"]
            ELSE /\ chunks' = chunks
                 /\ pc' = [pc EXCEPT ![r] = "s_post"]
    /\ UNCHANGED <<req, lines, result, orch, events, http>>
    /\ UNCHANGED logVars
    /\ UNCHANGED readVars
    /\ UNCHANGED handlerVars

StreamPost(r) ==
    /\ pc[r] = "s_post"
    /\ \E o \in StreamPostOutcomes :
         /\ calls' = [calls EXCEPT ![r] =
                         Append(@, GenerateCall(svc[r].model_name, TRUE, o))]
         /\ CASE o.kind = "timeout" ->
                   /\ Yield(r, GetFallbackStreamResponse(req[r].prompt,
                                   svc[r].model_name, "Request timeout"))
                   /\ pc' = [pc EXCEPT ![r] = "o_chunk"]
              [] o.kind = "exception" ->
                   /\ Yield(r, GetFallbackStreamResponse(req[r].prompt,
                                   svc[r].model_name, o.desc))
                   /\ pc' = [pc EXCEPT ![r] = "o_chunk"]
              [] o.kind = "response" /\ o.code # HTTP_OK ->
                   /\ Yield(r, GetFallbackStreamResponse(req[r].prompt,
                                   svc[r].model_name,
                                   "API error: " \o ToString(o.code)))
                   /\ pc' = [pc EXCEPT ![r] = "o_chunk"]
              [] o.kind = "response" /\ o.code = HTTP_OK ->
                   /\ chunks' = chunks
                   /\ pc' = [pc EXCEPT ![r] = "s_iter"]
    /\ svc' = [svc EXCEPT ![r].full_response = <<>>]
    /\ UNCHANGED <<req, lines, result, orch, events, http>>
    /\ UNCHANGED logVars
    /\ UNCHANGED readVars
    /\ UNCHANGED handlerVars

\* one turn of `for line in response.iter_lines()`
StreamLine(r) ==
    /\ pc[r] = "s_iter"
    /\ Len(lines[r]) < MaxLines
    /\ \E l \in StreamLines, elapsed \in Elapsed :
         /\ lines' = [lines EXCEPT ![r] = Append(@, l)]
         /\ CASE l.kind \in {"empty", "malformed"} ->
                   /\ UNCHANGED <<chunks, svc>>
                   /\ pc' = pc
              [] l.kind = "undecodable" ->
                   /\ Yield(r, GetFallbackStreamResponse(req[r].prompt,
                                   svc[r].model_name, DecodeError))
                   /\ svc' = svc
                   /\ pc' = [pc EXCEPT ![r] = "o_chunk"]
              [] l.kind = "raises" ->
                   /\ Yield(r, GetFallbackStreamResponse(req[r].prompt,
                                   svc[r].model_name, l.desc))
                   /\ svc' = svc
                   /\ pc' = [pc EXCEPT ![r] = "o_chunk"]
              [] l.kind = "json" ->
                   LET token == Get(l.obj, "response", <<>>)
                       done == Get(l.obj, "done", FALSE)
                       full_response == svc[r].full_response \o token IN
                   IF token # <<>>
                   THEN /\ svc' = [svc EXCEPT ![r].full_response = full_response]
                        /\ Yield(r, TokenChunk(token, svc[r].model_name, done))
                        /\ pc' = [pc EXCEPT ![r] = "o_chunk"]
                   ELSE IF done
                   THEN /\ svc' = svc
                        /\ Yield(r, TerminalChunk(svc[r].model_name,
                                                  svc[r].full_response, elapsed))
                        /\ pc' = [pc EXCEPT ![r] = "o_chunk"]
                   ELSE /\ UNCHANGED <<chunks, svc>>
                        /\ pc' = pc
    /\ UNCHANGED <<req, calls, result, orch, events, http>>
    /\ UNCHANGED logVars
    /\ UNCHANGED readVars
    /\ UNCHANGED handlerVars

\* mutant: when the body ends without a done line, the response ends too
StreamEndSilent(r) ==
    /\ pc[r] = "s_iter"
    /\ pc' = [pc EXCEPT ![r] = "done"]
    /\ UNCHANGED pipeVars
    /\ UNCHANGED logVars
    /\ UNCHANGED readVars
    /\ UNCHANGED handlerVars

\* the backend ends the body: iter_lines() is exhausted, the generator
\* returns, and the relay loop's `for` ends
StreamEnd(r) ==
    /\ pc[r] = "s_iter"
    /\ pc' = [pc EXCEPT ![r] = "o_sentinel"]
    /\ UNCHANGED pipeVars
    /\ UNCHANGED logVars
    /\ UNCHANGED readVars
    /\ UNCHANGED handlerVars

-----------------------------------------------------------------------------
(* app.py, generate_response: complete mode *)

\* the call interaction_logger.log_interaction(prompt, response_data)
CallLogInteraction(p, prompt, response_data) ==
    /\ args' = [args EXCEPT ![p] = [prompt |-> prompt,
                                     response_data |-> response_data]]
    /\ entry' = [entry EXCEPT ![p] = LogEntryOf(prompt, response_data)]
    /\ logstat' = [logstat EXCEPT ![p].calls = @ + 1]
    /\ pc' = [pc EXCEPT ![p] = "log_acquire"]

\* generate_response has returned: log the interaction
CompleteLog(r) ==
    /\ pc[r] = "o_log"
    /\ CallLogInteraction(r, req[r].prompt, result[r][1])
    /\ UNCHANGED pipeVars
    /\ UNCHANGED <<lock, file, exists>>
    /\ UNCHANGED readVars
    /\ UNCHANGED handlerVars

\* mutant: the response names the model that was asked for
CompleteReturnRequestedModel(r) ==
    /\ pc[r] = "o_return"
    /\ http' = [http EXCEPT ![r] = <<[status |-> HTTP_OK,
                                      response |-> result[r][1].response,
                                      model |-> ResolveModel(req[r].model)]>>]
    /\ pc' = [pc EXCEPT ![r] = "done"]
    /\ UNCHANGED <<req, svc, calls, lines, result, chunks, orch, events>>
    /\ UNCHANGED logVars
    /\ UNCHANGED readVars
    /\ UNCHANGED handlerVars

\* return GenerateResponse(response, model, timestamp): the model
\* validates its fields, and a model name that is no string raises
\* ValidationError into the handler's `except Exception`
CompleteReturn(r) ==
    /\ pc[r] = "o_return"
    /\ IF IsStr(result[r][1].model)
       THEN /\ http' = [http EXCEPT ![r] =
                           <<[status |-> HTTP_OK,
                              response |-> result[r][1].response,
                              model |-> result[r][1].model]>>]
            /\ pc' = [pc EXCEPT ![r] = "done"]
            /\ exc' = exc
       ELSE /\ exc' = [exc EXCEPT ![r] = <<ValidationError>>]
            /\ pc' = [pc EXCEPT ![r] = "o_except"]
            /\ http' = http
    /\ UNCHANGED <<req, svc, calls, lines, result, chunks, orch, events>>
    /\ UNCHANGED logVars
    /\ UNCHANGED readVars

\* mutant: the error entry is logged without its reason
ErrorDataNoReason(e) ==
    [response |-> <<"Internal server error: " \o e>>,
     model |-> "error",
     duration_ms |-> 0,
     success |-> FALSE]

\* the error_data dict of the handler's `except Exception as e`
ErrorData(e) ==
    [response |-> <<"Internal server error: " \o e>>,
     model |-> "error",
     duration_ms |-> 0,
     success |-> FALSE,
     error_reason |-> e]

\* except Exception as e: log the error interaction
ErrorLog(r) ==
    /\ pc[r] = "o_except"
    /\ CallLogInteraction(r, req[r].prompt, ErrorData(exc[r][1]))
    /\ UNCHANGED pipeVars
    /\ UNCHANGED <<lock, file, exists>>
    /\ UNCHANGED readVars
    /\ UNCHANGED handlerVars

\* raise HTTPException(500, ...), answered by http_exception_handler
ErrorRaise(r) ==
    /\ pc[r] = "o_raise"
    /\ http' = [http EXCEPT ![r] =
                   <<[status |-> HTTP_500_INTERNAL_SERVER_ERROR,
                      error |-> "Failed to generate response: " \o exc[r][1]]>>]
    /\ pc' = [pc EXCEPT ![r] = "done"]
    /\ UNCHANGED <<req, svc, calls, lines, result, chunks, orch, events>>
    /\ UNCHANGED logVars
    /\ UNCHANGED readVars
    /\ UNCHANGED handlerVars

-----------------------------------------------------------------------------
(* app.py, generate_stream: the relay loop of streaming mode *)

DataEvent(chunk) == [kind |-> "data", chunk |-> chunk]
DoneSentinel == [kind |-> "sentinel"]

IsSentinel(e) == e.kind = "sentinel"

Emit(r, e) == events' = [events EXCEPT ![r] = Append(@, e)]

\* the chunk the loop is working on
CurrentChunk(r) == chunks[r][Len(chunks[r])]

\* mutant: a done chunk without token is logged before it is relayed
RelayChunkLogFirst(r) ==
    /\ pc[r] = "o_chunk"
    /\ LET chunk == CurrentChunk(r) IN
         /\ orch' = [orch EXCEPT ![r].model_name = Get(chunk, "model", "")]
         /\ IF Get(chunk, "token", <<>>) # <<>>
            THEN /\ Emit(r, DataEvent(chunk))
                 /\ pc' = [pc EXCEPT ![r] = "o_token_sent"]
            ELSE IF Get(chunk, "done", FALSE)
            THEN /\ events' = events
                 /\ pc' = [pc EXCEPT ![r] = "o_done_sent"]
            ELSE /\ events' = events
                 /\ pc' = [pc EXCEPT ![r] = "s_iter"]
    /\ UNCHANGED <<req, svc, calls, lines, result, chunks, http>>
    /\ UNCHANGED logVars
    /\ UNCHANGED readVars
    /\ UNCHANGED handlerVars

\* a chunk arrives: note its model, relay it if it has a token,
\* else relay it if it is done
RelayChunk(r) ==
    /\ pc[r] = "o_chunk"
    /\ LET chunk == CurrentChunk(r) IN
         /\ orch' = [orch EXCEPT ![r].model_name = Get(chunk, "model", "")]
         /\ IF Get(chunk, "token", <<>>) # <<>>
            THEN /\ Emit(r, DataEvent(chunk))
                 /\ pc' = [pc EXCEPT ![r] = "o_token_sent"]
            ELSE IF Get(chunk, "done", FALSE)
            THEN /\ Emit(r, DataEvent(chunk))
                 /\ pc' = [pc EXCEPT ![r] = "o_done_sent"]
            ELSE /\ events' = events
                 /\ pc' = [pc EXCEPT ![r] = "s_iter"]
    /\ UNCHANGED <<req, svc, calls, lines, result, chunks, http>>
    /\ UNCHANGED logVars
    /\ UNCHANGED readVars
    /\ UNCHANGED handlerVars

\* resumed after relaying the token: accumulate it, relay the chunk
\* (again) if it is done, else ask the generator for the next chunk
AfterToken(r) ==
    /\ pc[r] = "o_token_sent"
    /\ LET chunk == CurrentChunk(r) IN
         /\ orch' = [orch EXCEPT ![r].full_response = @ \o chunk.token]
         /\ IF Get(chunk, "done", FALSE)
            THEN /\ Emit(r, DataEvent(chunk))
                 /\ pc' = [pc EXCEPT ![r] = "o_done_sent"]
            ELSE /\ events' = events
                 /\ pc' = [pc EXCEPT ![r] = "s_iter"]
    /\ UNCHANGED <<req, svc, calls, lines, result, chunks, http>>
    /\ UNCHANGED logVars
    /\ UNCHANGED readVars
    /\ UNCHANGED handlerVars

\* mutant: the reason of a failure chunk is not copied to log_data
StreamLogDataNoReason(chunk, full_response, model_name, duration_ms) ==
    [response |-> full_response,
     model |-> model_name,
     duration_ms |-> duration_ms,
     success |-> Get(chunk, "success", TRUE),
     streaming |-> TRUE]

\* mutant: the response logged is the full response of the done chunk
StreamLogDataOfChunk(chunk, full_response, model_name, duration_ms) ==
    [response |-> Get(chunk, "full_response", <<>>),
     model |-> model_name,
     duration_ms |-> duration_ms,
     success |-> Get(chunk, "success", TRUE),
     streaming |-> TRUE,
     error_reason |-> Get(chunk, "error_reason", "Unknown error")]

\* the log_data dict built for the done chunk
StreamLogData(chunk, full_response, model_name, duration_ms) ==
    LET base == [response |-> full_response,
                 model |-> model_name,
                 duration_ms |-> duration_ms,
                 success |-> Get(chunk, "success", TRUE),
                 streaming |-> TRUE]
    IN IF ~Get(chunk, "success", FALSE)
       THEN [k \in DOMAIN base \cup {"error_reason"} |->
                IF k = "error_reason"
                THEN Get(chunk, "error_reason", "Unknown error")
                ELSE base[k]]
       ELSE base

\* resumed after relaying the done chunk: log the interaction.  The loop
\* measures its own duration, which began before the generator's.
StreamLog(r) ==
    /\ pc[r] = "o_done_sent"
    /\ \E duration_ms \in Elapsed :
         /\ duration_ms >= Get(CurrentChunk(r), "duration_ms", 0)
         /\ CallLogInteraction(r, req[r].prompt,
                StreamLogData(CurrentChunk(r), orch[r].full_response,
                              orch[r].model_name, duration_ms))
    /\ UNCHANGED pipeVars
    /\ UNCHANGED <<lock, file, exists>>
    /\ UNCHANGED readVars
    /\ UNCHANGED handlerVars

\* yield "data: [DONE]", after the break or after the loop's end
StreamSentinel(r) ==
    /\ pc[r] = "o_sentinel"
    /\ Emit(r, DoneSentinel)
    /\ pc' = [pc EXCEPT ![r] = "done"]
    /\ UNCHANGED <<req, svc, calls, lines, result, chunks, orch, http>>
    /\ UNCHANGED logVars
    /\ UNCHANGED readVars
    /\ UNCHANGED handlerVars

-----------------------------------------------------------------------------
(* app.py, generate_stream: what the source does not decide.  An exception  *)
(* raised under the `try` of the relay loop (nothing in the source raises   *)
(* one on any input; MemoryError can be raised by any statement), and the   *)
(* caller going away, which closes the response generator at the `yield`    *)
(* it is suspended at.                                                      *)

\* where the try body is when the exception is raised: in a call of the
\* chunk generator, or in the loop body before or after one of its yields
RaisePoints ==
    {"s_probe", "s_models", "s_post", "s_iter",
     "o_chunk", "o_token_sent", "o_done_sent", "o_sentinel"}

\* except Exception as e
RelayRaise(r) ==
    /\ pc[r] \in RaisePoints
    /\ \E e \in ExcDescs : exc' = [exc EXCEPT ![r] = <<e>>]
    /\ pc' = [pc EXCEPT ![r] = "o_stream_except"]
    /\ UNCHANGED pipeVars
    /\ UNCHANGED logVars
    /\ UNCHANGED readVars

\* the error_chunk dict
ErrorChunk(model_name, e) ==
    [token |-> <<>>,
     model |-> IF Truthy(model_name) THEN model_name ELSE "error",
     done |-> TRUE,
     success |-> FALSE,
     error |-> e]

\* mutant: the error chunk is sent as a token and again as the done chunk
StreamErrorChunkTwice(r) ==
    /\ pc[r] = "o_stream_except"
    /\ events' = [events EXCEPT ![r] =
                     @ \o <<DataEvent(ErrorChunk(orch[r].model_name, exc[r][1])),
                            DataEvent(ErrorChunk(orch[r].model_name, exc[r][1]))>>]
    /\ pc' = [pc EXCEPT ![r] = "o_err_sent"]
    /\ UNCHANGED <<req, svc, calls, lines, result, chunks, orch, http>>
    /\ UNCHANGED logVars
    /\ UNCHANGED readVars
    /\ UNCHANGED handlerVars

\* yield the error chunk
StreamErrorChunk(r) ==
    /\ pc[r] = "o_stream_except"
    /\ Emit(r, DataEvent(ErrorChunk(orch[r].model_name, exc[r][1])))
    /\ pc' = [pc EXCEPT ![r] = "o_err_sent"]
    /\ UNCHANGED <<req, svc, calls, lines, result, chunks, orch, http>>
    /\ UNCHANGED logVars
    /\ UNCHANGED readVars
    /\ UNCHANGED handlerVars

\* yield "data: [DONE]" of the except clause
StreamErrorSentinel(r) ==
    /\ pc[r] = "o_err_sent"
    /\ Emit(r, DoneSentinel)
    /\ pc' = [pc EXCEPT ![r] = "done"]
    /\ UNCHANGED <<req, svc, calls, lines, result, chunks, orch, http>>
    /\ UNCHANGED logVars
    /\ UNCHANGED readVars
    /\ UNCHANGED handlerVars

\* the yields of generate_stream at which the generator is suspended while
\* more is to come: after a token event, a done event, the error chunk
RelayPoints == {"o_token_sent", "o_done_sent", "o_err_sent"}

\* mutant: the except clause catches the GeneratorExit of the close as well
\* and yields its error chunk, at which the close gives up
DisconnectCaught(r) ==
    /\ pc[r] \in RelayPoints
    /\ exc' = [exc EXCEPT ![r] = <<"GeneratorExit">>]
    /\ Emit(r, DataEvent(ErrorChunk(orch[r].model_name, "GeneratorExit")))
    /\ pc' = [pc EXCEPT ![r] = "closed"]
    /\ UNCHANGED <<req, svc, calls, lines, result, chunks, orch, http>>
    /\ UNCHANGED logVars
    /\ UNCHANGED readVars

\* the caller disconnects: the generator is closed, GeneratorExit is raised
\* at its yield, passes `except Exception` and ends generate_stream and,
\* with it, the chunk generator
Disconnect(r) ==
    /\ pc[r] \in RelayPoints
    /\ pc' = [pc EXCEPT ![r] = "closed"]
    /\ UNCHANGED pipeVars
    /\ UNCHANGED logVars
    /\ UNCHANGED readVars
    /\ UNCHANGED handlerVars

-----------------------------------------------------------------------------
(* InteractionLogger.log_interaction, from `with self.lock` on *)

\* mutant: the write goes ahead without waiting for the lock
LogAcquireNoWait(p) ==
    /\ pc[p] = "log_acquire"
    /\ lock' = <<p>>
    /\ pc' = [pc EXCEPT ![p] = "log_open"]
    /\ UNCHANGED pipeVars
    /\ UNCHANGED <<file, entry, logstat, exists, args>>
    /\ UNCHANGED readVars
    /\ UNCHANGED handlerVars

\* `with self.lock`: blocks until the lock is free
LogAcquire(p) ==
    /\ pc[p] = "log_acquire"
    /\ lock = <<>>
    /\ lock' = <<p>>
    /\ pc' = [pc EXCEPT ![p] = "log_open"]
    /\ UNCHANGED pipeVars
    /\ UNCHANGED <<file, entry, logstat, exists, args>>
    /\ UNCHANGED readVars
    /\ UNCHANGED handlerVars

\* mutant: the file is opened with "w", which truncates it
LogWriteHeadTruncating(p) ==
    /\ pc[p] = "log_open"
    /\ file' = <<Serialize(entry[p])[1]>>
    /\ exists' = TRUE
    /\ pc' = [pc EXCEPT ![p] = "log_write"]
    /\ UNCHANGED pipeVars
    /\ UNCHANGED <<lock, entry, logstat, args>>
    /\ UNCHANGED readVars
    /\ UNCHANGED handlerVars

\* open(log_file, "a") succeeds and the head of the line reaches the file
LogWriteHead(p) ==
    /\ pc[p] = "log_open"
    /\ file' = Append(file, Serialize(entry[p])[1])
    /\ exists' = TRUE
    /\ pc' = [pc EXCEPT ![p] = "log_write"]
    /\ UNCHANGED pipeVars
    /\ UNCHANGED <<lock, entry, logstat, args>>
    /\ UNCHANGED readVars
    /\ UNCHANGED handlerVars

\* the rest of the line reaches the file; the file is closed and the lock
\* released on leaving the with blocks
LogWriteTail(p) ==
    /\ pc[p] = "log_write"
    /\ file' = Append(file, Serialize(entry[p])[2])
    /\ lock' = <<>>
    /\ logstat' = [logstat EXCEPT ![p].appended = Append(@, entry[p]),
                                  ![p].inputs = Append(@, args[p])]
    /\ pc' = [pc EXCEPT ![p] = ReturnTo(p)]
    /\ UNCHANGED pipeVars
    /\ UNCHANGED <<entry, exists, args>>
    /\ UNCHANGED readVars
    /\ UNCHANGED handlerVars

\* mutant: the failure path returns with the lock still held
LogWriteFailKeepsLock(p) ==
    /\ pc[p] = "log_open"
    /\ logstat' = [logstat EXCEPT ![p].failed = @ + 1]
    /\ pc' = [pc EXCEPT ![p] = ReturnTo(p)]
    /\ \E created \in BOOLEAN : exists' = (exists \/ created)
    /\ UNCHANGED pipeVars
    /\ UNCHANGED <<lock, file, entry, args>>
    /\ UNCHANGED readVars
    /\ UNCHANGED handlerVars

\* mutant: the exception leaves log_interaction; the caller's handlers
\* answer with a server error (complete mode) or an error chunk and the
\* sentinel (streaming mode)
LogWriteFailRaises(p) ==
    /\ pc[p] = "log_open"
    /\ lock' = <<>>
    /\ logstat' = [logstat EXCEPT ![p].failed = @ + 1]
    /\ pc' = [pc EXCEPT ![p] = IF p \in Writers THEN "idle" ELSE "done"]
    /\ http' = [r \in Reqs |->
                 IF r = p /\ ~req[r].stream THEN <<[status |-> 500]>> ELSE http[r]]
    /\ events' = [r \in Reqs |->
                   IF r = p /\ req[r].stream
                   THEN events[r] \o <<DataEvent([token |-> <<>>, done |-> TRUE,
                                                  success |-> FALSE]),
                                       DoneSentinel>>
                   ELSE events[r]]
    /\ \E created \in BOOLEAN : exists' = (exists \/ created)
    /\ UNCHANGED <<req, svc, calls, lines, result, chunks, orch>>
    /\ UNCHANGED <<file, entry, args>>
    /\ UNCHANGED readVars
    /\ UNCHANGED handlerVars

\* open() raises, or it creates the file and write() raises before
\* anything reaches the file: the with blocks release the lock,
\* `except Exception` logs the error and log_interaction returns normally
LogWriteFail(p) ==
    /\ pc[p] = "log_open"
    /\ lock' = <<>>
    /\ logstat' = [logstat EXCEPT ![p].failed = @ + 1]
    /\ pc' = [pc EXCEPT ![p] = ReturnTo(p)]
    /\ \E created \in BOOLEAN : exists' = (exists \/ created)
    /\ UNCHANGED pipeVars
    /\ UNCHANGED <<file, entry, args>>
    /\ UNCHANGED readVars
    /\ UNCHANGED handlerVars

-----------------------------------------------------------------------------
(* LogSpec: a thread calls log_interaction with some response_data *)

LogInputs ==
    { [response |-> <<"ok">>, model |-> "llama2", duration_ms |-> MaxElapsed,
       success |-> TRUE],
      GetFallbackResponse("xyz", DefaultModel, "Request timeout") }

WriterCall(w) ==
    /\ pc[w] = "idle"
    /\ logstat[w].calls < MaxAppends
    /\ \E prompt \in Prompts, response_data \in LogInputs :
          CallLogInteraction(w, prompt, response_data)
    /\ UNCHANGED pipeVars
    /\ UNCHANGED <<lock, file, exists>>
    /\ UNCHANGED readVars
    /\ UNCHANGED handlerVars

-----------------------------------------------------------------------------
(* InteractionLogger: reading the log back *)

\* json.dumps(..., ensure_ascii=False) writes a non-ASCII character as it
\* is: as several bytes of UTF-8
NonAsciiPrompts == {"café"}
HasNonAscii(log_entry) == log_entry.prompt \in NonAsciiPrompts

\* a JSON string escapes the newline
JsonEscape(piece) == IF piece = "\n" THEN "\\n" ELSE piece
JsonUnescape(piece) == IF piece = "\\n" THEN "\n" ELSE piece

\* json.dumps(log_entry): the members of the JSON object
JsonDumps(log_entry) ==
    [k \in DOMAIN log_entry |->
        IF k = "response"
        THEN [i \in 1..Len(log_entry[k]) |-> JsonEscape(log_entry[k][i])]
        ELSE log_entry[k]]

\* json.loads(text) of the text of a JSON object
JsonLoads(text) ==
    [k \in DOMAIN text |->
        IF k = "response"
        THEN [i \in 1..Len(text[k]) |-> JsonUnescape(text[k][i])]
        ELSE text[k]]

\* json.loads(line.strip()): <<dict>>, or <<>> for json.JSONDecodeError,
\* which a line that is not the whole serialization of one entry raises
ParseLine(line) ==
    IF Len(line) = 2 /\ line = Serialize(line[1].of)
    THEN <<JsonLoads(JsonDumps(line[1].of))>>
    ELSE <<>>

\* the loop that parses the lines and skips those that do not parse
RECURSIVE ParseLines(_)
ParseLines(ls) ==
    IF ls = <<>> THEN <<>> ELSE ParseLine(Head(ls)) \o ParseLines(Tail(ls))

\* where the bytes of the file end, as a reader finds them while a line is
\* being written: between two characters, or inside a multi-byte one
ReadCuts(f) ==
    IF f # <<>> /\ f[Len(f)].part = "head" /\ HasNonAscii(f[Len(f)].of)
    THEN {"char", "midchar"}
    ELSE {"char"}

\* Python's seq[start:]
PySliceFrom(seq, start) ==
    LET n == Len(seq)
        from == IF start < 0
                THEN (IF n + start < 0 THEN 0 ELSE n + start)
                ELSE (IF start > n THEN n ELSE start)
    IN SubSeq(seq, from + 1, n)

\* mutant: keeps the first `limit` lines instead of the last
RecentLogsOldest(file_exists, f, limit, cut) ==
    IF ~file_exists THEN <<>>
    ELSE IF cut = "midchar" THEN <<>>
    ELSE LET all_lines == ReadLines(f)
             recent_lines == IF Len(all_lines) > limit
                             THEN SubSeq(all_lines, 1, limit)
                             ELSE all_lines
         IN ParseLines(recent_lines)

\* get_recent_logs(limit) on the file f; reading a file that ends inside a
\* character raises UnicodeDecodeError, which `except Exception` turns
\* into []
RecentLogs(file_exists, f, limit, cut) ==
    IF ~file_exists THEN <<>>
    ELSE IF cut = "midchar" THEN <<>>
    ELSE LET all_lines == ReadLines(f)
             recent_lines == IF Len(all_lines) > limit
                             THEN PySliceFrom(all_lines, -limit)
                             ELSE all_lines
         IN ParseLines(recent_lines)

ZeroStats ==
    [total_interactions |-> 0,
     successful_interactions |-> 0,
     failed_interactions |-> 0,
     average_duration_ms |-> 0]

RECURSIVE SumDurations(_)
SumDurations(entries) ==
    IF entries = <<>> THEN 0
    ELSE Get(Head(entries), "duration_ms", 0) + SumDurations(Tail(entries))

\* round(n / d, 2) in hundredths, ties to the even hundredth
Round2(n, d) ==
    LET q == (n * 100) \div d
        r == (n * 100) % d
    IN IF 2 * r < d THEN q
       ELSE IF 2 * r > d THEN q + 1
       ELSE IF q % 2 = 0 THEN q ELSE q + 1

\* get_log_stats() on the file f; average_duration_ms is in hundredths of
\* a millisecond
LogStats(file_exists, f, cut) ==
    IF ~file_exists THEN ZeroStats
    ELSE IF cut = "midchar" THEN ZeroStats
    ELSE LET entries == ParseLines(ReadLines(f))
             total == Len(entries)
             successful ==
                 Cardinality({i \in 1..total : Get(entries[i], "success", TRUE)})
             failed == total - successful
             total_duration == SumDurations(entries)
         IN [total_interactions |-> total,
             successful_interactions |-> successful,
             failed_interactions |-> failed,
             average_duration_ms |->
                 IF total > 0 THEN Round2(total_duration, total) ELSE 0]

Limits == 0..MaxLimit

\* GET /logs/recent: one call of get_recent_logs, which takes no lock
GetRecentLogs ==
    /\ \E limit \in Limits, cut \in ReadCuts(file) :
          rd' = [op |-> "get_recent_logs", limit |-> limit, cut |-> cut,
                 seen |-> Len(file), existed |-> exists,
                 logs |-> RecentLogs(exists, file, limit, cut)]
    /\ UNCHANGED pc
    /\ UNCHANGED pipeVars
    /\ UNCHANGED logVars
    /\ UNCHANGED handlerVars

\* GET /logs/stats: one call of get_log_stats, which takes no lock
GetLogStats ==
    /\ \E cut \in ReadCuts(file) :
          rd' = [op |-> "get_log_stats", cut |-> cut,
                 seen |-> Len(file), existed |-> exists,
                 stats |-> LogStats(exists, file, cut)]
    /\ UNCHANGED pc
    /\ UNCHANGED pipeVars
    /\ UNCHANGED logVars
    /\ UNCHANGED handlerVars

\* ReadSpec: the interactions a thread logs while the log is read
AppendWriters == {"w1"}

AppendInputs ==
    { [prompt |-> "Hello",
       response_data |-> [response |-> <<"ok">>, model |-> "llama2",
                          duration_ms |-> 100, success |-> TRUE]],
      [prompt |-> "café",
       response_data |-> [response |-> <<"a", "\n", "b">>, model |-> "phi",
                          duration_ms |-> 200, success |-> TRUE,
                          streaming |-> TRUE]],
      [prompt |-> "xyz",
       response_data |->
           GetFallbackResponse("xyz", DefaultModel, "Request timeout")] }

AppendCall(w) ==
    /\ pc[w] = "idle"
    /\ logstat[w].calls < MaxLogged
    /\ \E in \in AppendInputs :
          CallLogInteraction(w, in.prompt, in.response_data)
    /\ UNCHANGED pipeVars
    /\ UNCHANGED <<lock, file, exists>>
    /\ UNCHANGED readVars
    /\ UNCHANGED handlerVars

-----------------------------------------------------------------------------
(* Specifications *)

Logger(p) ==
    \/ LogAcquire(p)
    \/ LogWriteHead(p)
    \/ LogWriteTail(p)
    \/ LogWriteFail(p)

Next ==
    \E r \in Reqs :
        \/ Accept(r)
        \/ GenerateProbe(r)
        \/ GenerateModels(r)
        \/ GeneratePost(r)
        \/ CompleteLog(r)
        \/ CompleteReturn(r)
        \/ ErrorLog(r)
        \/ ErrorRaise(r)
        \/ StreamProbe(r)
        \/ StreamModels(r)
        \/ StreamPost(r)
        \/ StreamLine(r)
        \/ StreamEnd(r)
        \/ RelayChunk(r)
        \/ AfterToken(r)
        \/ StreamLog(r)
        \/ StreamSentinel(r)
        \/ Logger(r)

Spec == Init /\ [][Next]_vars

\* LiveSpec: the request is served to its end.  Every HTTP call returns or
\* times out, the backend's body ends, the caller keeps reading the
\* response, and the lock is held for one write only.
LiveSpec == Spec /\ WF_vars(Next)

\* FaultSpec: a streaming request, already accepted, served while another
\* request logs its interaction; the relay loop may raise and the caller
\* may disconnect
FaultPeers == {"w1"}

\* the other request reaches its log_interaction call
PeerCall(w) ==
    /\ pc[w] = "idle"
    /\ logstat[w].calls = 0
    /\ CallLogInteraction(w, "Hello",
                          [response |-> <<"ok">>, model |-> "llama2",
                           duration_ms |-> MaxElapsed, success |-> TRUE])
    /\ UNCHANGED pipeVars
    /\ UNCHANGED <<lock, file, exists>>
    /\ UNCHANGED readVars
    /\ UNCHANGED handlerVars

FaultInit ==
    /\ pc = [p \in Procs |-> IF p \in Reqs THEN "s_probe" ELSE "idle"]
    /\ req = [r \in Reqs |-> [prompt |-> "Hello", model |-> PyNone,
                              stream |-> TRUE]]
    /\ svc = [r \in Reqs |-> [model_name |-> "", available_models |-> <<>>,
                              full_response |-> <<>>]]
    /\ calls = [r \in Reqs |-> <<>>]
    /\ lines = [r \in Reqs |-> <<>>]
    /\ result = [r \in Reqs |-> <<>>]
    /\ chunks = [r \in Reqs |-> <<>>]
    /\ orch = [r \in Reqs |-> [full_response |-> <<>>, model_name |-> ""]]
    /\ events = [r \in Reqs |-> <<>>]
    /\ http = [r \in Reqs |-> <<>>]
    /\ lock = <<>>
    /\ file = <<>>
    /\ entry = [p \in Procs |-> NoEntry]
    /\ logstat = [p \in Procs |-> [calls |-> 0, appended |-> <<>>, failed |-> 0,
                                    inputs |-> <<>>]]
    /\ exists = FALSE
    /\ args = [p \in Procs |-> NoArgs]
    /\ rd = NoRead
    /\ exc = [r \in Reqs |-> <<>>]

FaultNext ==
    \/ \E r \in Reqs :
          \/ StreamProbe(r)
          \/ StreamModels(r)
          \/ StreamPost(r)
          \/ StreamLine(r)
          \/ StreamEnd(r)
          \/ RelayChunk(r)
          \/ AfterToken(r)
          \/ StreamLog(r)
          \/ StreamSentinel(r)
          \/ Logger(r)
          \/ RelayRaise(r)
          \/ StreamErrorChunk(r)
          \/ StreamErrorSentinel(r)
          \/ Disconnect(r)
    \/ \E w \in FaultPeers : PeerCall(w) \/ Logger(w)

FaultSpec == FaultInit /\ [][FaultNext]_vars

LogNext == \E w \in Writers : WriterCall(w) \/ Logger(w)

LogSpec == Init /\ [][LogNext]_vars

ReadNext ==
    \/ \E w \in AppendWriters : AppendCall(w) \/ Logger(w)
    \/ GetRecentLogs
    \/ GetLogStats

ReadSpec == Init /\ [][ReadNext]_vars

-----------------------------------------------------------------------------
(* FallbackSpec: _get_fallback_response and _get_fallback_stream_response   *)
(* applied, one after the other, to a prompt, a model and an error reason   *)

FallbackPrompts ==
    {"Hello", "xyz", "Why how", "WHAT", "explain why", "Show", "what hello",
     "Explain"}

FallbackReasons ==
    {"Ollama service unavailable", "No models available", "Request timeout",
     "API error: 500"} \cup ExcDescs

FallbackInit ==
    /\ pc = [p \in Procs |-> IF p \in Reqs THEN "f_call" ELSE "idle"]
    /\ req \in [Reqs -> {[prompt |-> p, model |-> m, stream |-> FALSE] :
                            p \in FallbackPrompts, m \in RequestModels}]
    /\ svc = [r \in Reqs |-> [model_name |-> "", available_models |-> <<>>,
                              full_response |-> <<>>]]
    /\ calls = [r \in Reqs |-> <<>>]
    /\ lines = [r \in Reqs |-> <<>>]
    /\ result = [r \in Reqs |-> <<>>]
    /\ chunks = [r \in Reqs |-> <<>>]
    /\ orch = [r \in Reqs |-> [full_response |-> <<>>, model_name |-> ""]]
    /\ events = [r \in Reqs |-> <<>>]
    /\ http = [r \in Reqs |-> <<>>]
    /\ lock = <<>>
    /\ file = <<>>
    /\ entry = [p \in Procs |-> NoEntry]
    /\ logstat = [p \in Procs |-> [calls |-> 0, appended |-> <<>>, failed |-> 0,
                                    inputs |-> <<>>]]
    /\ exists = FALSE
    /\ args = [p \in Procs |-> NoArgs]
    /\ rd = NoRead
    /\ exc = [r \in Reqs |-> <<>>]

FallbackCall(r) ==
    /\ pc[r] = "f_call"
    /\ \E error_reason \in FallbackReasons :
          result' = [result EXCEPT ![r] =
              <<GetFallbackResponse(req[r].prompt, ResolveModel(req[r].model),
                                    error_reason)>>]
    /\ pc' = [pc EXCEPT ![r] = "f_stream"]
    /\ UNCHANGED <<req, svc, calls, lines, chunks, orch, events, http>>
    /\ UNCHANGED logVars
    /\ UNCHANGED readVars
    /\ UNCHANGED handlerVars

FallbackStreamCall(r) ==
    /\ pc[r] = "f_stream"
    /\ \E error_reason \in FallbackReasons :
          Yield(r, GetFallbackStreamResponse(req[r].prompt,
                       ResolveModel(req[r].model), error_reason))
    /\ pc' = [pc EXCEPT ![r] = "f_done"]
    /\ UNCHANGED <<req, svc, calls, lines, result, orch, events, http>>
    /\ UNCHANGED logVars
    /\ UNCHANGED readVars
    /\ UNCHANGED handlerVars

FallbackNext == \E r \in Reqs : FallbackCall(r) \/ FallbackStreamCall(r)

FallbackSpec == FallbackInit /\ [][FallbackNext]_vars

-----------------------------------------------------------------------------
(* Vocabulary of the properties *)

Finished(r) == pc[r] = "done"
IsStream(r) == pc[r] # "idle" /\ req[r].stream
IsComplete(r) == pc[r] # "idle" /\ ~req[r].stream

\* generate_response has returned its result
Returned(r) == IsComplete(r) /\ result[r] # <<>>

\* generate_response_stream has ended: exhausted, or closed by the relay
\* loop's break
StreamOver(r) ==
    /\ IsStream(r)
    /\ pc[r] \in {"o_done_sent", "log_acquire", "log_open", "log_write",
                  "o_sentinel", "done"}

SomeCall(r, P(_)) == \E i \in 1..Len(calls[r]) : P(calls[r][i])

Last(seq) == seq[Len(seq)]

-----------------------------------------------------------------------------
(* C1: every accepted generation request, complete or streaming, ends with  *)
(* exactly one call of log_interaction for it, and, unless that write       *)
(* failed, exactly one entry of it appended to the log.                     *)
(* Violated: a streaming request whose backend body ends without a done     *)
(* line finishes with no call of log_interaction at all.                    *)

C1_ExactlyOneLogEntry ==
    \A r \in Reqs :
        Finished(r) =>
            /\ logstat[r].calls = 1
            /\ logstat[r].failed = 0 => Len(logstat[r].appended) = 1

-----------------------------------------------------------------------------
(* C2: when generate_response_stream has ended, the sequence of chunks it   *)
(* produced is non-empty, its last chunk has done = true and no earlier     *)
(* chunk has done = true.                                                   *)
(* Violated: the backend ends the body without a done line; the generator   *)
(* returns after the token chunks (or after none) with no terminal chunk.   *)

C2_StreamEndsWithOneDone ==
    \A r \in Reqs :
        StreamOver(r) =>
            /\ chunks[r] # <<>>
            /\ Last(chunks[r]).done
            /\ \A i \in 1..(Len(chunks[r]) - 1) : ~chunks[r][i].done

-----------------------------------------------------------------------------
(* C3: whenever a call to the backend failed at any step (probe, model      *)
(* list, generation call) or reading the streaming body raised, the result  *)
(* of generate_response, or a chunk of generate_response_stream, has        *)
(* success = false and carries an error reason.                             *)
(* Violated: a failed model listing is read as an empty list, the           *)
(* generation call is issued all the same and may succeed (see C5).         *)

Failed(c) == c.failed
Raised(l) == l.kind = "raises"
IsErrorData(d) == ~d.success /\ "error_reason" \in DOMAIN d

C3_FailuresBecomeErrorResults ==
    \A r \in Reqs :
        /\ (Returned(r) /\ SomeCall(r, Failed)) => IsErrorData(result[r][1])
        /\ ( /\ StreamOver(r)
             /\ \/ SomeCall(r, Failed)
                \/ \E i \in 1..Len(lines[r]) : Raised(lines[r][i]) )
           => \E i \in 1..Len(chunks[r]) : IsErrorData(chunks[r][i])

-----------------------------------------------------------------------------
(* C4: when the availability probe fails, generate_response returns a       *)
(* result with success = false, the reason "Ollama service unavailable" and *)
(* as model the requested model (the default one if none was requested)     *)
(* followed by " (fallback)", and the probe is the only call made to the    *)
(* backend: no model listing, no generation call.                           *)

\* the model a request asks for: its own, else the configured default
RequestedModel(r) ==
    IF req[r].model \in {PyNone, ""} THEN DefaultModel ELSE req[r].model

ProbeFailed(r) == calls[r] # <<>> /\ IsProbeCall(calls[r][1]) /\ calls[r][1].failed

C4_UnavailableFallback ==
    \A r \in Reqs :
        (Returned(r) /\ ProbeFailed(r)) =>
            /\ IsErrorData(result[r][1])
            /\ result[r][1].error_reason = "Ollama service unavailable"
            /\ result[r][1].model = RequestedModel(r) \o " (fallback)"
            /\ Len(calls[r]) = 1

C4_Witness ==
    \E r \in Reqs :
        /\ Returned(r) /\ ProbeFailed(r)
        /\ req[r].model = "mistral"
        /\ result[r][1].model = "mistral (fallback)"

-----------------------------------------------------------------------------
(* C5: when the backend is available and GET /api/tags answers with an      *)
(* empty model list, no generation call is issued and the result / the      *)
(* chunk is a fallback with success = false and "No models available".      *)
(* Violated: `if available_models and ...` is false for the empty list, so  *)
(* the "No models available" branch is never taken and the generation call  *)
(* goes out with the requested model.                                       *)

ListedOk(c) == IsListCall(c) /\ ~c.failed
EmptyListFetched(r) == SomeCall(r, ListedOk) /\ svc[r].available_models = <<>>

C5_EmptyListFallsBack ==
    \A r \in Reqs :
        EmptyListFetched(r) =>
            /\ ~SomeCall(r, IsGenerateCall)
            /\ Returned(r) =>
                  /\ IsErrorData(result[r][1])
                  /\ result[r][1].error_reason = "No models available"
            /\ StreamOver(r) =>
                  /\ chunks[r] # <<>>
                  /\ IsErrorData(Last(chunks[r]))
                  /\ Last(chunks[r]).error_reason = "No models available"

-----------------------------------------------------------------------------
(* C6: when a generation call is issued after a non-empty model list was    *)
(* fetched, the model sent is the requested model if it is listed and the   *)
(* first listed model otherwise, so it is always a member of the list; the  *)
(* result and every chunk name that model (with the " (fallback)" suffix    *)
(* when the generation itself fails).                                       *)

ModelUsed(r) ==
    IF InList(RequestedModel(r), svc[r].available_models)
    THEN RequestedModel(r)
    ELSE svc[r].available_models[1]

NamesModel(d, m) ==
    d.model = IF d.success THEN m ELSE PyStr(m) \o " (fallback)"

C6_ModelFromList ==
    \A r \in Reqs :
        (SomeCall(r, IsGenerateCall) /\ svc[r].available_models # <<>>) =>
            /\ \A i \in 1..Len(calls[r]) :
                  IsGenerateCall(calls[r][i]) =>
                      /\ calls[r][i].model = ModelUsed(r)
                      /\ InList(calls[r][i].model, svc[r].available_models)
            /\ Returned(r) => NamesModel(result[r][1], ModelUsed(r))
            /\ \A i \in 1..Len(chunks[r]) : NamesModel(chunks[r][i], ModelUsed(r))

C6_Witness ==
    \E r \in Reqs :
        /\ SomeCall(r, IsGenerateCall)
        /\ svc[r].available_models # <<>>
        /\ ~InList(RequestedModel(r), svc[r].available_models)
        /\ Returned(r) /\ result[r][1].success
        /\ result[r][1].model = "phi"

-----------------------------------------------------------------------------
(* C7: the result of generate_response has duration_ms >= 0 and a boolean   *)
(* success flag, and with success = false its error_reason is present and   *)
(* not the empty string.                                                    *)
(* Violated: the reason of the last `except Exception as e` is str(e),      *)
(* which is empty for an exception raised without a message.                *)

C7_ResultWellFormed ==
    \A r \in Reqs :
        Returned(r) =>
            /\ result[r][1].duration_ms >= 0
            /\ result[r][1].success \in BOOLEAN
            /\ ~result[r][1].success =>
                  /\ "error_reason" \in DOMAIN result[r][1]
                  /\ result[r][1].error_reason # ""

-----------------------------------------------------------------------------
(* C8 (LogSpec): with several threads in log_interaction at once, the       *)
(* writes never interleave.  Every line of the file is the serialization    *)
(* of one entry, except that the last line may be the head of the line the  *)
(* lock holder is writing; and for every entry the number of its lines      *)
(* equals the number of successful appends of it.                           *)

\* the entries appended by the threads of S, thread after thread
RECURSIVE AppendedBy(_)
AppendedBy(S) ==
    IF S = {} THEN <<>>
    ELSE LET p == CHOOSE q \in S : TRUE
         IN logstat[p].appended \o AppendedBy(S \ {p})

Count(seq, x) == Cardinality({i \in 1..Len(seq) : seq[i] = x})

BeingWritten(line) ==
    \E p \in Procs :
        lock = <<p>> /\ pc[p] = "log_write" /\ line = <<Serialize(entry[p])[1]>>

C8_NoInterleaving ==
    LET ls == ReadLines(file) IN
    /\ \A i \in 1..Len(ls) :
          \/ ls[i] = Serialize(ls[i][1].of)
          \/ i = Len(ls) /\ BeingWritten(ls[i])
    /\ \A j \in 1..Len(AppendedBy(Procs)) :
          LET e == AppendedBy(Procs)[j] IN
          Count(ls, Serialize(e)) = Count(AppendedBy(Procs), e)
    /\ Cardinality({i \in 1..Len(ls) : Last(ls[i]).part = "tail"})
           = Len(AppendedBy(Procs))

C8_Witness ==
    \E p, q \in Writers :
        /\ p # q
        /\ pc[p] = "log_write"
        /\ pc[q] = "log_acquire"
        /\ Len(logstat[q].appended) >= 1
        /\ Len(ReadLines(file)) >= 2

-----------------------------------------------------------------------------
(* C9 (LogSpec): the lock is held exactly by the thread that is between     *)
(* opening the file and the end of its write, so by at most one thread;     *)
(* every return of log_interaction, a failed open or write included,        *)
(* leaves it released, and a later append acquires it.                      *)

InWrite(p) == pc[p] \in {"log_open", "log_write"}

C9_LockScopedToWrite ==
    /\ lock = <<>> \/ \E p \in Procs : lock = <<p>>
    /\ \A p \in Procs : (lock = <<p>>) <=> InWrite(p)
    /\ Cardinality({p \in Procs : InWrite(p)}) <= 1

C9_Witness ==
    \E p, q \in Writers :
        /\ p # q
        /\ logstat[p].failed >= 1
        /\ pc[p] = "idle"
        /\ lock = <<q>>
        /\ pc[q] = "log_write"

-----------------------------------------------------------------------------
(* C10: a failed log write does not leave log_interaction and does not      *)
(* change what the caller receives: in complete mode the generation result  *)
(* with status 200 (the server error, if the handler caught an exception    *)
(* of its own), in streaming mode the done chunk followed by the stream-end *)
(* sentinel.                                                                *)

C10_LogFailureInvisible ==
    \A r \in Reqs :
        logstat[r].failed > 0 =>
            /\ \/ pc[r] \in {"o_return", "o_sentinel", "done"}
               \/ /\ exc[r] # <<>>
                  /\ pc[r] \in {"o_except", "log_acquire", "log_open",
                                "log_write", "o_raise"}
            /\ (Finished(r) /\ IsComplete(r) /\ exc[r] = <<>>) =>
                  http[r] = <<[status |-> HTTP_OK,
                               response |-> result[r][1].response,
                               model |-> result[r][1].model]>>
            /\ (Finished(r) /\ IsComplete(r) /\ exc[r] # <<>>) =>
                  http[r] = <<[status |-> HTTP_500_INTERNAL_SERVER_ERROR,
                               error |-> "Failed to generate response: "
                                            \o exc[r][1]]>>
            /\ (Finished(r) /\ IsStream(r)) =>
                  /\ Len(events[r]) >= 2
                  /\ IsSentinel(Last(events[r]))
                  /\ events[r][Len(events[r]) - 1] = DataEvent(Last(chunks[r]))
                  /\ Last(chunks[r]).done

C10_Witness ==
    \E r \in Reqs :
        /\ Finished(r) /\ IsStream(r)
        /\ logstat[r].failed > 0
        /\ Last(chunks[r]).success
        /\ Len(events[r]) >= 3

-----------------------------------------------------------------------------
(* Vocabulary of the properties on reading the log (ReadSpec) *)

\* the entries appended so far, in the order of their appends (ReadSpec has
\* one appending thread)
AppendedInOrder == AppendedBy(AppendWriters)

\* the file as the last read found it
SeenFile == SubSeq(file, 1, rd.seen)

\* the number of appends that were complete when the last read took place
CountAtRead ==
    Cardinality({i \in 1..rd.seen : file[i].part = "tail"})

\* the entries that had been appended when the last read took place
AppendedAtRead == SubSeq(AppendedInOrder, 1, CountAtRead)

\* an append was in progress when the last read took place: the file
\* ended with a line that was not complete
InFlightAtRead == rd.seen > 0 /\ file[rd.seen].part = "head"

Min(a, b) == IF a < b THEN a ELSE b
LastN(seq, n) == SubSeq(seq, Len(seq) - n + 1, Len(seq))

-----------------------------------------------------------------------------
(* C11 (ReadSpec): get_recent_logs(limit) with a positive limit, called     *)
(* when no append is in progress, returns the last min(limit, count) of the *)
(* count entries appended so far, oldest first; it returns the empty        *)
(* sequence when the log file does not exist.                               *)

C11_RecentEntries ==
    rd.op = "get_recent_logs" =>
        /\ (rd.limit > 0 /\ ~InFlightAtRead) =>
              rd.logs = LastN(AppendedAtRead, Min(rd.limit, CountAtRead))
        /\ ~rd.existed => rd.logs = <<>>

C11_Witness ==
    /\ rd.op = "get_recent_logs"
    /\ rd.limit = 2
    /\ ~InFlightAtRead
    /\ CountAtRead = 3
    /\ Len(rd.logs) = 2
    /\ rd.logs[1] # rd.logs[2]
    /\ rd.logs[2] = AppendedInOrder[3]

-----------------------------------------------------------------------------
(* C12 (ReadSpec): with N entries appended, S of them with success = true,  *)
(* get_log_stats returns total = N, successful = S, failed = N - S and as   *)
(* average the sum of their duration_ms divided by N, rounded to the        *)
(* nearest hundredth, or 0 when N = 0 or the file does not exist; a line    *)
(* that does not parse (here: the incomplete line of an append in           *)
(* progress) is skipped and not counted.                                    *)
(* Violated: when the incomplete last line ends inside a multi-byte         *)
(* character the whole scan fails and the statistics are all zero (C14).    *)

RECURSIVE DurationTotal(_)
DurationTotal(entries) ==
    IF entries = <<>> THEN 0
    ELSE Head(entries).duration_ms + DurationTotal(Tail(entries))

Successes(entries) == Cardinality({i \in 1..Len(entries) : entries[i].success})

Abs(x) == IF x < 0 THEN -x ELSE x

\* avg, in hundredths, is sum / n rounded to the nearest hundredth
IsRoundedAverage(avg, sum, n) == 2 * Abs(100 * sum - avg * n) <= n

StatsOf(entries, stats) ==
    /\ stats.total_interactions = Len(entries)
    /\ stats.successful_interactions = Successes(entries)
    /\ stats.failed_interactions = Len(entries) - Successes(entries)
    /\ stats.total_interactions =
           stats.successful_interactions + stats.failed_interactions
    /\ IF Len(entries) = 0
       THEN stats.average_duration_ms = 0
       ELSE IsRoundedAverage(stats.average_duration_ms,
                             DurationTotal(entries), Len(entries))

C12_Stats ==
    rd.op = "get_log_stats" =>
        /\ StatsOf(AppendedAtRead, rd.stats)
        /\ ~rd.existed => rd.stats = ZeroStats

\* the same, for the reads whose file decodes
C12_StatsOfDecodableFile ==
    (rd.op = "get_log_stats" /\ rd.cut = "char") =>
        /\ StatsOf(AppendedAtRead, rd.stats)
        /\ ~rd.existed => rd.stats = ZeroStats

C12_Example ==
    /\ rd.op = "get_log_stats"
    /\ Len(AppendedAtRead) = 3
    /\ AppendedAtRead[1].duration_ms = 100 /\ AppendedAtRead[1].success
    /\ AppendedAtRead[2].duration_ms = 200 /\ AppendedAtRead[2].success
    /\ AppendedAtRead[3].duration_ms = 0 /\ ~AppendedAtRead[3].success
    /\ rd.stats = [total_interactions |-> 3,
                   successful_interactions |-> 2,
                   failed_interactions |-> 1,
                   average_duration_ms |-> 10000]

-----------------------------------------------------------------------------
(* C13 (ReadSpec): get_recent_logs(1), called after an append and before    *)
(* the next one begins to write, returns one entry whose prompt, response,  *)
(* model, duration_ms and success are those passed to log_interaction,      *)
(* whose error_reason is present exactly when one was passed and is then    *)
(* the same, and which has no other field: a key of response_data that is   *)
(* not part of the entry (the streaming flag) is absent.                    *)

\* the arguments of the appends done so far, in order
InputsInOrder == logstat[CHOOSE w \in AppendWriters : TRUE].inputs

EntryFields ==
    {"prompt", "response", "model", "duration_ms", "success", "error_reason"}

ReadsBack(e, in) ==
    /\ e.prompt = in.prompt
    /\ e.response = in.response_data.response
    /\ e.model = in.response_data.model
    /\ e.duration_ms = in.response_data.duration_ms
    /\ e.success = in.response_data.success
    /\ ("error_reason" \in DOMAIN e) <=> ("error_reason" \in DOMAIN in.response_data)
    /\ "error_reason" \in DOMAIN e => e.error_reason = in.response_data.error_reason
    /\ DOMAIN e \subseteq EntryFields

C13_RoundTrip ==
    ( /\ rd.op = "get_recent_logs"
      /\ rd.limit = 1
      /\ ~InFlightAtRead
      /\ CountAtRead >= 1 )
    => /\ Len(rd.logs) = 1
       /\ ReadsBack(rd.logs[1], InputsInOrder[CountAtRead])

C13_Witness ==
    /\ rd.op = "get_recent_logs"
    /\ rd.limit = 1
    /\ ~InFlightAtRead
    /\ CountAtRead = 2
    /\ "streaming" \in DOMAIN InputsInOrder[2].response_data
    /\ rd.logs[1].response = <<"a", "\n", "b">>
    /\ "error_reason" \in DOMAIN InputsInOrder[1].response_data

-----------------------------------------------------------------------------
(* C14 (ReadSpec): get_recent_logs and get_log_stats can run while an       *)
(* append holds the lock, and when they find the last line of the file      *)
(* incomplete they skip it and return / count the completely written        *)
(* entries: the statistics are those of the entries appended so far, and    *)
(* the recent entries are the most recent of them, the incomplete line      *)
(* taking at most one place among the last `limit` lines.                   *)
(* Violated: when the bytes written so far end inside a multi-byte          *)
(* character, decoding the file raises UnicodeDecodeError, which is no      *)
(* json.JSONDecodeError: the outer `except Exception` answers [] and zero   *)
(* statistics, although completely written entries exist.                   *)

IsSuffix(t, seq) == Len(t) <= Len(seq) /\ t = LastN(seq, Len(t))

C14_ReadsDuringAppend ==
    /\ lock # <<>> => (ENABLED GetRecentLogs /\ ENABLED GetLogStats)
    /\ (rd.op = "get_log_stats" /\ InFlightAtRead) =>
          StatsOf(AppendedAtRead, rd.stats)
    /\ (rd.op = "get_recent_logs" /\ InFlightAtRead /\ rd.limit > 0) =>
          /\ IsSuffix(rd.logs, AppendedAtRead)
          /\ Len(rd.logs) <= rd.limit
          /\ Len(rd.logs) >= Min(rd.limit - 1, CountAtRead)

\* the same, for the reads that find the bytes ending between two characters
C14_ReadsOfDecodableFile ==
    /\ lock # <<>> => (ENABLED GetRecentLogs /\ ENABLED GetLogStats)
    /\ (rd.op = "get_log_stats" /\ InFlightAtRead /\ rd.cut = "char") =>
          StatsOf(AppendedAtRead, rd.stats)
    /\ (rd.op = "get_recent_logs" /\ InFlightAtRead /\ rd.limit > 0
          /\ rd.cut = "char") =>
          /\ IsSuffix(rd.logs, AppendedAtRead)
          /\ Len(rd.logs) <= rd.limit
          /\ Len(rd.logs) >= Min(rd.limit - 1, CountAtRead)

-----------------------------------------------------------------------------
(* C15 (ReadSpec): the log file is append-only.  Every step leaves what is  *)
(* in the file where it is; the file changes only by the thread that holds  *)
(* the lock in log_interaction writing the next portion of its entry at the *)
(* end, one line per call; get_recent_logs and get_log_stats do not change  *)
(* it.                                                                      *)

IsPrefix(t, seq) == Len(t) <= Len(seq) /\ t = SubSeq(seq, 1, Len(t))

\* the number of complete lines of f
CompleteLines(f) == Cardinality({i \in 1..Len(f) : f[i].part = "tail"})

C15_AppendOnly ==
    [][ /\ IsPrefix(file, file')
        /\ rd' # rd => file' = file
        /\ file' # file =>
              \E p \in Procs :
                  /\ lock = <<p>>
                  /\ InWrite(p)
                  /\ file' = Append(file, [part |-> IF pc[p] = "log_open"
                                                    THEN "head" ELSE "tail",
                                           of |-> entry[p]])
        /\ CompleteLines(file') =
              CompleteLines(file) +
                (IF \E p \in Procs : Len(logstat'[p].appended)
                                         = Len(logstat[p].appended) + 1
                 THEN 1 ELSE 0)
      ]_vars

C15_Witness ==
    /\ rd.op # "none"
    /\ rd.seen >= 2
    /\ rd.seen < Len(file)
    /\ CompleteLines(file) >= 2
    /\ \E w \in AppendWriters : logstat[w].failed >= 1

-----------------------------------------------------------------------------
(* C16 (FallbackSpec): the fallback text depends on the prompt alone.  It   *)
(* is the sentence of the first keyword, in the order hello, what, how,     *)
(* why, explain, that occurs in the lower-cased prompt, and the generic     *)
(* apology when none occurs, whatever the error reason; the complete-mode   *)
(* result and the streaming chunk (token and full response) carry the same  *)
(* text for the same prompt.                                                *)

KeywordOrder == <<"hello", "what", "how", "why", "explain">>

Occurs(keyword, prompt) == Contains(Lower(Chars(prompt)), Chars(keyword))

ExpectedFallbackText(prompt) ==
    IF \E i \in 1..Len(KeywordOrder) : Occurs(KeywordOrder[i], prompt)
    THEN LET first == CHOOSE i \in 1..Len(KeywordOrder) :
                         /\ Occurs(KeywordOrder[i], prompt)
                         /\ \A j \in 1..(i - 1) : ~Occurs(KeywordOrder[j], prompt)
         IN FallbackSentence(KeywordOrder[first])
    ELSE GenericFallback

C16_FallbackText ==
    \A r \in Reqs :
        /\ result[r] # <<>> =>
              result[r][1].response = ExpectedFallbackText(req[r].prompt)
        /\ chunks[r] # <<>> =>
              /\ chunks[r][1].token = ExpectedFallbackText(req[r].prompt)
              /\ chunks[r][1].full_response = chunks[r][1].token
        /\ (result[r] # <<>> /\ chunks[r] # <<>>) =>
              chunks[r][1].token = result[r][1].response

C16_Witness ==
    \E r \in Reqs :
        /\ req[r].prompt = "Why how"
        /\ result[r] # <<>> /\ chunks[r] # <<>>
        /\ result[r][1].error_reason # chunks[r][1].error_reason
        /\ result[r][1].response = FallbackSentence("how")
        /\ chunks[r][1].token = FallbackSentence("how")

-----------------------------------------------------------------------------
(* C17: when the availability probe fails, generate_response_stream yields  *)
(* exactly one chunk, for any prompt: done = true, success = false, the     *)
(* reason "Ollama service unavailable", and as token and full response the  *)
(* fallback text of the prompt (for "Hello" the sentence of "hello"); no    *)
(* chunk follows, and the probe is the only call made to the backend.       *)

C17_StreamUnavailable ==
    \A r \in Reqs :
        (IsStream(r) /\ ProbeFailed(r)) =>
            /\ Len(chunks[r]) = 1
            /\ chunks[r][1].done
            /\ IsErrorData(chunks[r][1])
            /\ chunks[r][1].error_reason = "Ollama service unavailable"
            /\ chunks[r][1].token = ExpectedFallbackText(req[r].prompt)
            /\ chunks[r][1].full_response = ExpectedFallbackText(req[r].prompt)
            /\ req[r].prompt = "Hello" =>
                  chunks[r][1].token = FallbackSentence("hello")
            /\ Len(calls[r]) = 1

C17_Witness ==
    \E r \in Reqs :
        /\ Finished(r) /\ IsStream(r) /\ ProbeFailed(r)
        /\ req[r].prompt = "Hello"
        /\ Len(chunks[r]) = 1
        /\ chunks[r][1].token = FallbackSentence("hello")

-----------------------------------------------------------------------------
(* Vocabulary of the properties on the chunks of a stream *)

\* the generation call of a streaming request was answered with status 200
PostOk(r) ==
    /\ IsStream(r)
    /\ \E i \in 1..Len(calls[r]) :
           IsGenerateCall(calls[r][i]) /\ ~calls[r][i].failed

\* timeout, connection error or non-200 status: of the generation call, or
\* while the body is read
HardFailure(r) ==
    /\ IsStream(r)
    /\ \/ \E i \in 1..Len(calls[r]) :
              IsGenerateCall(calls[r][i]) /\ calls[r][i].failed
       \/ \E i \in 1..Len(lines[r]) : Raised(lines[r][i])

\* a line that does not parse as a JSON object
Malformed(l) == l.kind \in {"malformed", "undecodable"}
CarriesToken(l) == l.kind = "json" /\ Get(l.obj, "response", <<>>) # <<>>
CarriesDone(l) == l.kind = "json" /\ Get(l.obj, "done", FALSE)

\* the non-empty tokens of the well-formed lines from the i-th one on, in
\* the backend's order
RECURSIVE TokensFrom(_, _)
TokensFrom(ls, i) ==
    IF i > Len(ls) THEN <<>>
    ELSE (IF CarriesToken(ls[i]) THEN <<ls[i].obj.response>> ELSE <<>>)
           \o TokensFrom(ls, i + 1)

\* the token texts of the first n chunks, one after the other
RECURSIVE TokenTexts(_, _)
TokenTexts(cs, n) ==
    IF n = 0 THEN <<>> ELSE TokenTexts(cs, n - 1) \o cs[n].token

\* the tokens of the chunks that are not failure chunks
RECURSIVE ChunkTokens(_, _)
ChunkTokens(cs, i) ==
    IF i > Len(cs) THEN <<>>
    ELSE (IF cs[i].success /\ cs[i].token # <<>> THEN <<cs[i].token>>
          ELSE <<>>)
           \o ChunkTokens(cs, i + 1)

\* the backend answered 200 and sent its lines up to one with done = true,
\* none of them unparseable, and nothing failed
SuccessfulStream(r) ==
    /\ StreamOver(r)
    /\ PostOk(r)
    /\ ~HardFailure(r)
    /\ \A i \in 1..Len(lines[r]) : ~Malformed(lines[r][i])
    /\ \E i \in 1..Len(lines[r]) : CarriesDone(lines[r][i])

-----------------------------------------------------------------------------
(* C18: on a successful stream, generate_response_stream produces one chunk *)
(* per non-empty token of the backend, in the backend's order, none of them *)
(* with done = true, followed by exactly one terminal chunk with            *)
(* done = true whose full response is the concatenation, in order, of the   *)
(* token texts of all chunks before it.                                     *)
(* Violated: the terminal chunk carries full_response.strip(), so tokens    *)
(* " ", "Hi" give the full response "Hi" and not " Hi"; and a backend line  *)
(* that carries both a token and done = true gives a token chunk with       *)
(* done = true, at which the relay loop stops, so that no terminal chunk    *)
(* with a full response is produced.                                        *)

C18_TokensThenTerminal ==
    \A r \in Reqs :
        SuccessfulStream(r) =>
            LET n == Len(chunks[r]) IN
            /\ n >= 1
            /\ \A i \in 1..(n - 1) :
                   /\ chunks[r][i].success
                   /\ chunks[r][i].token # <<>>
                   /\ ~chunks[r][i].done
            /\ [i \in 1..(n - 1) |-> chunks[r][i].token]
                  = TokensFrom(lines[r], 1)
            /\ chunks[r][n].done
            /\ chunks[r][n].success
            /\ "full_response" \in DOMAIN chunks[r][n]
            /\ chunks[r][n].full_response = TokenTexts(chunks[r], n - 1)

-----------------------------------------------------------------------------
(* C19: a malformed (unparseable) line of a stream is skipped and the later *)
(* lines are still processed: the token chunks produced are those of the    *)
(* well-formed lines, and a failure chunk is produced only on a hard        *)
(* failure (timeout, connection error, non-200 status). A hard failure      *)
(* gives a single fallback chunk with done = true and success = false,      *)
(* which is the last chunk: the sequence ends with it.                      *)
(* Violated: only json.JSONDecodeError is caught per line; a line whose     *)
(* bytes are not UTF-8 raises UnicodeDecodeError out of the loop, the       *)
(* generator yields a fallback chunk and ends, and the later lines of the   *)
(* backend are never read.                                                  *)

C19_MalformedSkipped ==
    \A r \in Reqs :
        IsStream(r) =>
            /\ PostOk(r) => ChunkTokens(chunks[r], 1) = TokensFrom(lines[r], 1)
            /\ (\E i \in 1..Len(chunks[r]) : ~chunks[r][i].success)
                  => (HardFailure(r) \/ ProbeFailed(r))
            /\ \A i \in 1..Len(chunks[r]) :
                   ~chunks[r][i].success =>
                       /\ i = Len(chunks[r])
                       /\ chunks[r][i].done
                       /\ IsErrorData(chunks[r][i])
            /\ HardFailure(r) =>
                  /\ chunks[r] # <<>>
                  /\ ~Last(chunks[r]).success
                  /\ pc[r] # "s_iter"

-----------------------------------------------------------------------------
(* C20: complete mode runs in the order generate, append, return:           *)
(* log_interaction is called only once generate_response has returned, with *)
(* the prompt and that result, and the HTTP response is made only once      *)
(* log_interaction has returned. The response has status 200 and its        *)
(* response text and model are those of the entry that was logged, which is *)
(* the one entry the request appended unless the write failed; this holds   *)
(* for results with success = false (fallback results) as well. (A request  *)
(* whose handler caught an exception returns no result: see C21.)           *)

Responded(r) == http[r] # <<>>

C20_CompleteOrder ==
    \A r \in Reqs :
        (IsComplete(r) /\ exc[r] = <<>>) =>
            /\ logstat[r].calls > 0 =>
                  /\ Returned(r)
                  /\ args[r] = [prompt |-> req[r].prompt,
                                response_data |-> result[r][1]]
            /\ Responded(r) =>
                  /\ logstat[r].calls = 1
                  /\ ~InWrite(r) /\ pc[r] = "done" /\ lock # <<r>>
                  /\ Len(http[r]) = 1
                  /\ http[r][1].status = HTTP_OK
                  /\ http[r][1].response = entry[r].response
                  /\ http[r][1].model = entry[r].model
                  /\ entry[r].prompt = req[r].prompt
                  /\ logstat[r].failed = 0 =>
                        /\ logstat[r].appended = <<entry[r]>>
                        /\ Count(ReadLines(file), Serialize(entry[r])) = 1

C20_Witness ==
    \E r \in Reqs :
        /\ Finished(r) /\ IsComplete(r) /\ Responded(r)
        /\ ~result[r][1].success
        /\ logstat[r].appended = <<entry[r]>>
        /\ http[r][1].model = entry[r].model
        /\ http[r][1].model # ResolveModel(req[r].model)

-----------------------------------------------------------------------------
(* C21: in complete mode, when the handler catches an unexpected exception  *)
(* (here: GenerateResponse rejects a model name that is no string), it      *)
(* calls log_interaction with success = false, error_reason equal to the    *)
(* exception description, the response text "Internal server error: ..."    *)
(* and the model "error"; that entry is appended unless the write failed;   *)
(* only then does the caller receive an answer, which is a server error     *)
(* (status 500) and carries no generation result.                           *)

InternalError(r) == IsComplete(r) /\ exc[r] # <<>>

C21_InternalError ==
    \A r \in Reqs :
        InternalError(r) =>
            LET e == exc[r][1]
                logged == pc[r] # "o_except" IN
            /\ logged =>
                  /\ args[r].prompt = req[r].prompt
                  /\ ~args[r].response_data.success
                  /\ "error_reason" \in DOMAIN args[r].response_data
                  /\ args[r].response_data.error_reason = e
                  /\ entry[r] = [prompt |-> req[r].prompt,
                                 response |-> <<"Internal server error: " \o e>>,
                                 model |-> "error",
                                 duration_ms |-> 0,
                                 success |-> FALSE,
                                 error_reason |-> e]
            /\ ~Responded(r) <=> pc[r] # "done"
            /\ Responded(r) =>
                  /\ logged /\ ~InWrite(r) /\ lock # <<r>>
                  /\ Len(http[r]) = 1
                  /\ http[r][1].status = HTTP_500_INTERNAL_SERVER_ERROR
                  /\ "response" \notin DOMAIN http[r][1]
                  /\ logstat[r].failed = 0 =>
                        /\ Last(logstat[r].appended) = entry[r]
                        /\ Last(ReadLines(file)) = Serialize(entry[r])

C21_Witness ==
    \E r \in Reqs :
        /\ Finished(r) /\ InternalError(r)
        /\ http[r][1].status = HTTP_500_INTERNAL_SERVER_ERROR
        /\ logstat[r].failed = 0
        /\ Last(logstat[r].appended).error_reason = exc[r][1]
        /\ ~Last(logstat[r].appended).success

-----------------------------------------------------------------------------
(* C22: within one streaming request every chunk generate_response_stream   *)
(* has produced, up to and including the terminal one, is relayed to the    *)
(* caller as exactly one event, in the order of production: the chunks of   *)
(* the data events are the chunks produced (but for the one the relay loop  *)
(* has just been handed), none dropped, duplicated or reordered.            *)
(* Violated: the loop relays a chunk once if it has a token and once more   *)
(* if it is done; every fallback chunk has both (its token is the fallback  *)
(* text), and so has the chunk of a backend line with a token and           *)
(* done = true: the caller receives that chunk twice.                       *)

IsData(e) == ~IsSentinel(e)

\* the chunks of the data events, in the order the caller received them
RECURSIVE RelayedChunks(_)
RelayedChunks(evs) ==
    IF evs = <<>> THEN <<>>
    ELSE (IF IsData(Head(evs)) THEN <<Head(evs).chunk>> ELSE <<>>)
           \o RelayedChunks(Tail(evs))

C22_RelayedOnceInOrder ==
    \A r \in Reqs :
        IsStream(r) =>
            /\ IsPrefix(RelayedChunks(events[r]), chunks[r])
            /\ pc[r] # "o_chunk" => RelayedChunks(events[r]) = chunks[r]

-----------------------------------------------------------------------------
(* C23: in streaming mode log_interaction is called, and the entry written, *)
(* only after the chunk with done = true has been relayed (it is then the   *)
(* last event the caller received), and the stream-end sentinel is emitted  *)
(* only after log_interaction has returned: no log append before the        *)
(* terminal chunk, none after the sentinel.                                 *)

DoneRelayed(r) ==
    \E i \in 1..Len(events[r]) : IsData(events[r][i]) /\ events[r][i].chunk.done
SentinelEmitted(r) == \E i \in 1..Len(events[r]) : IsSentinel(events[r][i])
InLogCall(r) == pc[r] \in {"log_acquire", "log_open", "log_write"}
WrittenBy(r) == \E i \in 1..Len(file) : file[i].of = entry[r]

C23_LogAfterDoneBeforeSentinel ==
    \A r \in Reqs :
        IsStream(r) =>
            /\ (logstat[r].calls > 0 \/ WrittenBy(r)) => DoneRelayed(r)
            /\ InLogCall(r) =>
                  /\ ~SentinelEmitted(r)
                  /\ IsData(Last(events[r])) /\ Last(events[r]).chunk.done
            /\ ~DoneRelayed(r) =>
                  /\ logstat[r].appended = <<>>
                  /\ ~InLogCall(r)
            /\ SentinelEmitted(r) =>
                  /\ ~InLogCall(r) /\ lock # <<r>>
                  /\ pc[r] = "done"
                  /\ logstat[r].calls = Len(logstat[r].appended)
                                           + logstat[r].failed

C23_Witness ==
    \E r \in Reqs :
        /\ Finished(r) /\ IsStream(r)
        /\ SentinelEmitted(r) /\ DoneRelayed(r)
        /\ Len(logstat[r].appended) = 1
        /\ Len(events[r]) >= 3
        /\ Last(chunks[r]).token = <<>>

-----------------------------------------------------------------------------
(* C24, as claimed: the entry appended for a streaming request has response *)
(* equal to the concatenation of the token texts of the request's chunks,   *)
(* model equal to the model on the terminal chunk, and success and          *)
(* duration_ms equal to the values carried on the terminal chunk.           *)
(* Violated in duration_ms only: the relay loop logs the time it measured   *)
(* itself, from before the first chunk to after the relay of the terminal   *)
(* one, and does not read the duration_ms of the chunk.                     *)

\* the entry a streaming request has appended, and its terminal chunk
StreamLogged(r) == IsStream(r) /\ logstat[r].appended # <<>>
LoggedEntry(r) == logstat[r].appended[1]
TerminalOf(r) == Last(chunks[r])

-----------------------------------------------------------------------------
(* C26: every log entry a request builds and writes, on any path (complete  *)
(* success, complete fallback, internal error, streaming success, streaming *)
(* fallback), has duration_ms >= 0, and has an error_reason whenever its    *)
(* success is false.                                                        *)

EntryWellFormed(e) ==
    /\ e.duration_ms >= 0
    /\ ~e.success => "error_reason" \in DOMAIN e

-----------------------------------------------------------------------------
(* C27: every streaming request whose backend stream ends (by a done line,  *)
(* by a failure, or by the backend closing the body) and whose caller keeps *)
(* reading is eventually sent the stream-end sentinel; the sentinel is      *)
(* emitted at most once per request and no event follows it.                *)

Sentinels(r) == Cardinality({i \in 1..Len(events[r]) : IsSentinel(events[r][i])})

SentinelOnceAndLast ==
    \A r \in Reqs :
        /\ Sentinels(r) <= 1
        /\ Sentinels(r) = 1 => IsSentinel(Last(events[r])) /\ Finished(r)
        /\ (Finished(r) /\ IsStream(r)) => Sentinels(r) = 1

C27_SentinelEventually ==
    /\ []SentinelOnceAndLast
    /\ \A r \in Reqs : IsStream(r) ~> SentinelEmitted(r)

C27_Witness ==
    \E r \in Reqs :
        /\ Finished(r) /\ IsStream(r)
        /\ Sentinels(r) = 1 /\ IsSentinel(Last(events[r]))
        /\ ~DoneRelayed(r)
        /\ Len(events[r]) = 2

-----------------------------------------------------------------------------
(* C28 (ReadSpec): get_recent_logs(limit), for every limit >= 0 that         *)
(* GET /logs/recent passes on (0 included) and every content of the log,    *)
(* returns at most limit entries.                                           *)
(* Violated: with limit = 0 the slice lines[-0:] is the whole list, so      *)
(* every entry of the log is returned.                                      *)

C28_BoundedByLimit ==
    rd.op = "get_recent_logs" => Len(rd.logs) <= rd.limit

-----------------------------------------------------------------------------
(* C29 (ReadSpec): when the file holds a line that does not parse (here:    *)
(* the incomplete line of an append in progress) among V lines that do,     *)
(* get_recent_logs(limit) with a positive limit returns the last            *)
(* min(limit, V) parseable entries, oldest first: the skipped line does     *)
(* not reduce the number of entries returned.                               *)
(* Violated: the last limit lines are cut off before they are parsed, so    *)
(* the unparseable line takes the place of an entry: with one entry and an  *)
(* incomplete line after it, get_recent_logs(1) returns nothing.            *)

C29_SkippedLinesNotCounted ==
    (rd.op = "get_recent_logs" /\ rd.limit > 0 /\ rd.cut = "char") =>
        rd.logs = LastN(AppendedAtRead, Min(rd.limit, CountAtRead))

-----------------------------------------------------------------------------
(* C25: when an exception reaches the relay loop of a streaming request,    *)
(* after any number of relayed chunks, the loop sends exactly one error     *)
(* chunk (done true, success false, error = the exception's description),   *)
(* then the sentinel, and from the exception on the request appends no log  *)
(* entry and starts no log_interaction call.                                *)

StreamRaised(r) == IsStream(r) /\ exc[r] # <<>>
Synthetic(e) == IsData(e) /\ "error" \in DOMAIN e.chunk
SyntheticAt(r) == {i \in 1..Len(events[r]) : Synthetic(events[r][i])}

ErrorChunkThenSentinel(r) ==
    /\ Cardinality(SyntheticAt(r)) <= 1
    /\ \A i \in SyntheticAt(r) :
          /\ events[r][i].chunk.done
          /\ ~events[r][i].chunk.success
          /\ events[r][i].chunk.error = exc[r][1]
          /\ i >= Len(events[r]) - 1
    /\ Sentinels(r) <= 1
    /\ SentinelEmitted(r) =>
          /\ IsSentinel(Last(events[r]))
          /\ SyntheticAt(r) = {Len(events[r]) - 1}
    /\ Finished(r) => SentinelEmitted(r)
    /\ ~InLogCall(r)

C25_StreamException ==
    /\ [](\A r \in Reqs : StreamRaised(r) => ErrorChunkThenSentinel(r))
    /\ [][\A r \in Reqs :
            (StreamRaised(r) \/ exc'[r] # <<>>) =>
                /\ logstat'[r] = logstat[r]
                /\ entry'[r] = entry[r]]_vars

C25_Witness ==
    \E r \in Reqs :
        /\ StreamRaised(r) /\ Finished(r)
        /\ Len(events[r]) = 3
        /\ IsData(events[r][1]) /\ ~Synthetic(events[r][1])
        /\ Synthetic(events[r][2])
        /\ IsSentinel(events[r][3])
        /\ logstat[r].calls = 0

-----------------------------------------------------------------------------
(* C30: when the caller of a streaming request disconnects at a relay       *)
(* point, nothing more is relayed to it, no error is raised and no log call *)
(* is started for it; the request does not hold the log lock, every line of *)
(* the log file is a complete entry unless another request is writing it    *)
(* just then, and another request's log_interaction call goes on to append  *)
(* its entry.                                                               *)

Closed(r) == pc[r] = "closed"

ClosedLeavesLogSound ==
    LET ls == ReadLines(file) IN
    \A r \in Reqs :
        Closed(r) =>
            /\ lock # <<r>>
            /\ lock = <<>> \/ \E w \in FaultPeers : lock = <<w>> /\ InWrite(w)
            /\ \A i \in 1..Len(ls) :
                  \/ ls[i] = Serialize(ls[i][1].of)
                  \/ /\ i = Len(ls)
                     /\ \E w \in FaultPeers :
                           /\ lock = <<w>> /\ pc[w] = "log_write"
                           /\ ls[i] = <<Serialize(entry[w])[1]>>
            /\ \A w \in FaultPeers :
                  /\ \A j \in 1..Len(logstat[w].appended) :
                         Count(ls, Serialize(logstat[w].appended[j])) >= 1
                  /\ (pc[w] = "log_acquire" /\ lock = <<>>) => ENABLED LogAcquire(w)
                  /\ pc[w] = "log_open" => ENABLED LogWriteHead(w)
                  /\ pc[w] = "log_write" => ENABLED LogWriteTail(w)

C30_Disconnect ==
    /\ []ClosedLeavesLogSound
    /\ [][\A r \in Reqs :
            Closed(r)' =>
                /\ events'[r] = events[r]
                /\ exc'[r] = exc[r]
                /\ http'[r] = http[r]
                /\ logstat'[r] = logstat[r]
                /\ pc[r] \in RelayPoints \cup {"closed"}]_vars

C30_Witness ==
    \E r \in Reqs, w \in FaultPeers :
        /\ Closed(r)
        /\ exc[r] = <<>>
        /\ Len(events[r]) = 1
        /\ logstat[r].calls = 0
        /\ logstat[w].appended # <<>>
        /\ ReadLines(file) = <<Serialize(logstat[w].appended[1])>>
        /\ lock = <<>>

=============================================================================
